---- MODULE Spec2Model ----
(***************************************************************************)
(* Model of the hotline utilities of maplibre-hotline (src/src/hotline.ts): *)
(* buildSegments, createSpeedColorScale and findNearestPointOnTrack, and of *)
(* the handlers of the map component that uses them (src/src/App.tsx): the  *)
(* hover handler, the route-loading effect and the cluster updates.         *)
(*                                                                         *)
(* JavaScript numbers are modelled as exact rationals extended with the     *)
(* three non-finite IEEE-754 values NaN, +Infinity and -Infinity.  The      *)
(* arithmetic operators follow the IEEE rules for the non-finite values     *)
(* (Infinity * 0 = NaN, Infinity - Infinity = NaN, every comparison with    *)
(* NaN is false, ...).  Rounding error and overflow of finite values are    *)
(* not modelled: finite results are exact.  The one exception is SpecJoin,  *)
(* which computes the segments in binary floating point of Precision bits,  *)
(* rounding every operation to nearest, ties to even.                       *)
(***************************************************************************)
EXTENDS Integers, Sequences, FiniteSets, TLC

-----------------------------------------------------------------------------
(* JavaScript numbers *)

Abs(i) == IF i < 0 THEN -i ELSE i

RECURSIVE Gcd(_, _)
Gcd(a, b) == IF b = 0 THEN a ELSE Gcd(b, a % b)

\* the finite number n/d (d # 0), in lowest terms with a positive denominator
Q(n, d) ==
  LET g == Gcd(Abs(n), Abs(d))
      s == IF d < 0 THEN -1 ELSE 1
  IN  [k |-> "fin", n |-> (s * n) \div g, d |-> (s * d) \div g]

I(n) == [k |-> "fin", n |-> n, d |-> 1]
NaN == [k |-> "nan", n |-> 0, d |-> 1]
PInf == [k |-> "pinf", n |-> 0, d |-> 1]
NInf == [k |-> "ninf", n |-> 0, d |-> 1]

\* Number.isFinite
IsFinite(x) == x.k = "fin"
IsNaN(x) == x.k = "nan"

\* -1, 0 or 1 for a number that is not NaN
Sign(x) ==
  CASE x.k = "pinf" -> 1
    [] x.k = "ninf" -> -1
    [] OTHER -> IF x.n > 0 THEN 1 ELSE IF x.n < 0 THEN -1 ELSE 0

SignedInf(s) == IF s > 0 THEN PInf ELSE NInf

Neg(x) ==
  CASE x.k = "fin" -> [x EXCEPT !.n = -x.n]
    [] x.k = "pinf" -> NInf
    [] x.k = "ninf" -> PInf
    [] OTHER -> NaN

\* a + b
Add(a, b) ==
  CASE IsNaN(a) \/ IsNaN(b) -> NaN
    [] IsFinite(a) /\ IsFinite(b) ->
         LET g == Gcd(a.d, b.d)
         IN  Q(a.n * (b.d \div g) + b.n * (a.d \div g), (a.d \div g) * b.d)
    [] IsFinite(a) -> b
    [] IsFinite(b) -> a
    [] OTHER -> IF a.k = b.k THEN a ELSE NaN

\* a - b
Sub(a, b) == Add(a, Neg(b))

\* a * b
Mul(a, b) ==
  CASE IsNaN(a) \/ IsNaN(b) -> NaN
    [] IsFinite(a) /\ IsFinite(b) ->
         LET g1 == Gcd(Abs(a.n), b.d)
             g2 == Gcd(Abs(b.n), a.d)
         IN  Q((a.n \div g1) * (b.n \div g2), (a.d \div g2) * (b.d \div g1))
    [] OTHER -> IF Sign(a) * Sign(b) = 0 THEN NaN
                ELSE SignedInf(Sign(a) * Sign(b))

\* a / b (the sign of a zero divisor is taken as positive)
Div(a, b) ==
  CASE IsNaN(a) \/ IsNaN(b) -> NaN
    [] IsFinite(a) /\ IsFinite(b) ->
         IF b.n # 0 THEN Mul(a, Q(b.d, b.n))
         ELSE IF a.n = 0 THEN NaN ELSE SignedInf(Sign(a))
    [] IsFinite(a) -> I(0)
    [] IsFinite(b) -> SignedInf(Sign(a) * (IF Sign(b) < 0 THEN -1 ELSE 1))
    [] OTHER -> NaN

\* n1/d1 < n2/d2 for positive d1, d2, by comparing the integer parts and
\* then the reciprocals of the fractional parts
RECURSIVE FracLess(_, _, _, _)
FracLess(n1, d1, n2, d2) ==
  LET q1 == n1 \div d1
      q2 == n2 \div d2
      r1 == n1 % d1
      r2 == n2 % d2
  IN  IF q1 # q2 THEN q1 < q2
      ELSE IF r2 = 0 THEN FALSE
      ELSE IF r1 = 0 THEN TRUE
      ELSE FracLess(d2, r2, d1, r1)

\* a < b
Lt(a, b) ==
  CASE IsNaN(a) \/ IsNaN(b) -> FALSE
    [] IsFinite(a) /\ IsFinite(b) -> FracLess(a.n, a.d, b.n, b.d)
    [] OTHER -> a # b /\ (a.k = "ninf" \/ b.k = "pinf")

\* a > b, a <= b
Gt(a, b) == Lt(b, a)
Le(a, b) == ~IsNaN(a) /\ ~IsNaN(b) /\ ~Lt(b, a)

\* Math.min, Math.max
MathMin(a, b) == IF IsNaN(a) \/ IsNaN(b) THEN NaN ELSE IF Lt(b, a) THEN b ELSE a
MathMax(a, b) == IF IsNaN(a) \/ IsNaN(b) THEN NaN ELSE IF Lt(a, b) THEN b ELSE a

\* floor of the rational n/d, d > 0
FloorDiv(n, d) == n \div d

\* Math.floor
MathFloor(x) == IF IsFinite(x) THEN I(FloorDiv(x.n, x.d)) ELSE x

\* Math.abs
MathAbs(x) ==
  CASE IsNaN(x) -> NaN
    [] x.k = "ninf" -> PInf
    [] x.k = "pinf" -> PInf
    [] OTHER -> IF x.n < 0 THEN Neg(x) ELSE x

\* Math.round with exact halves towards -Infinity
MathRoundHalfDown(x) ==
  IF IsFinite(x) THEN I(-FloorDiv(x.d - 2 * x.n, 2 * x.d)) ELSE x

\* Math.round: nearest integer, exact halves towards +Infinity
MathRound(x) == IF IsFinite(x) THEN I(FloorDiv(2 * x.n + x.d, 2 * x.d)) ELSE x

\* the operand of ||, && and if: 0 and NaN are falsy
Truthy(x) == ~(IsNaN(x) \/ (IsFinite(x) /\ x.n = 0))

\* a || b
OrElse(a, b) == IF Truthy(a) THEN a ELSE b

-----------------------------------------------------------------------------
(* buildSegments *)

\* const lerp = (a, b, t) => a + (b - a) * t
lerp(a, b, t) == Add(a, Mul(Sub(b, a), t))

\* Coalesce falling back for every falsy x, as x || y does
CoalesceOr(x, y) == IF x.set /\ Truthy(x.v) THEN x.v ELSE y

\* x ?? y for an optional number x = [set, v]
Coalesce(x, y) == IF x.set THEN x.v ELSE y

Absent == [set |-> FALSE, v |-> I(0)]
Given(v) == [set |-> TRUE, v |-> v]

\* gridIndex: {}
EmptyIndex == [c \in {} |-> <<>>]

\* the BuildResult returned for fewer than two points
DegenerateResult(options) ==
  [segments |-> <<>>,
   minSpeed |-> Coalesce(options.minSpeedOverride, I(0)),
   maxSpeed |-> Coalesce(options.maxSpeedOverride, I(1)),
   initialViewState |->
     [longitude |-> I(0), latitude |-> I(0), zoom |-> I(2),
      pitch |-> I(0), bearing |-> I(0)],
   gridIndex |-> EmptyIndex,
   gridSize |-> Q(5, 100)]

\* MakeSegment with the end parameter taken over subdivisions + 1
MakeSegmentEndDrift(a, b, i, s, subdivisions) ==
  LET t0 == Div(I(s), subdivisions)
      t1 == Div(I(s + 1), Add(subdivisions, I(1)))
      speed0 == lerp(a.speed, b.speed, t0)
      speed1 == lerp(a.speed, b.speed, t1)
      time0 == lerp(a.timestamp, b.timestamp, t0)
      time1 == lerp(a.timestamp, b.timestamp, t1)
  IN  [id |-> <<i, s>>,
       path |-> <<<<lerp(a.lon, b.lon, t0), lerp(a.lat, b.lat, t0)>>,
                  <<lerp(a.lon, b.lon, t1), lerp(a.lat, b.lat, t1)>>>>,
       speed |-> Div(Add(speed0, speed1), I(2)),
       timestamp |-> Div(Add(time0, time1), I(2)),
       speed0 |-> speed0, speed1 |-> speed1,
       time0 |-> time0, time1 |-> time1]

\* MakeSegment storing the start time as the segment's timestamp
MakeSegmentStartTime(a, b, i, s, subdivisions) ==
  LET t0 == Div(I(s), subdivisions)
      t1 == Div(I(s + 1), subdivisions)
      speed0 == lerp(a.speed, b.speed, t0)
      speed1 == lerp(a.speed, b.speed, t1)
      time0 == lerp(a.timestamp, b.timestamp, t0)
      time1 == lerp(a.timestamp, b.timestamp, t1)
  IN  [id |-> <<i, s>>,
       path |-> <<<<lerp(a.lon, b.lon, t0), lerp(a.lat, b.lat, t0)>>,
                  <<lerp(a.lon, b.lon, t1), lerp(a.lat, b.lat, t1)>>>>,
       speed |-> Div(Add(speed0, speed1), I(2)),
       timestamp |-> time0,
       speed0 |-> speed0, speed1 |-> speed1,
       time0 |-> time0, time1 |-> time1]

\* one iteration of the inner loop: the segment for points a, b (JavaScript
\* index i) and sub-index s
MakeSegment(a, b, i, s, subdivisions) ==
  LET t0 == Div(I(s), subdivisions)
      t1 == Div(I(s + 1), subdivisions)
      lon0 == lerp(a.lon, b.lon, t0)
      lat0 == lerp(a.lat, b.lat, t0)
      lon1 == lerp(a.lon, b.lon, t1)
      lat1 == lerp(a.lat, b.lat, t1)
      speed0 == lerp(a.speed, b.speed, t0)
      speed1 == lerp(a.speed, b.speed, t1)
      segSpeed == Div(Add(speed0, speed1), I(2))
      time0 == lerp(a.timestamp, b.timestamp, t0)
      time1 == lerp(a.timestamp, b.timestamp, t1)
  IN  [id |-> <<i, s>>,
       path |-> <<<<lon0, lat0>>, <<lon1, lat1>>>>,
       speed |-> segSpeed,
       timestamp |-> Div(Add(time0, time1), I(2)),
       speed0 |-> speed0, speed1 |-> speed1,
       time0 |-> time0, time1 |-> time1]

\* TrackSpeed following the start speed instead of the midpoint speed
TrackSpeedStart(acc, seg) ==
  IF IsFinite(seg.speed0)
  THEN [acc EXCEPT !.minS = MathMin(acc.minS, seg.speed0),
                   !.maxS = MathMax(acc.maxS, seg.speed0)]
  ELSE acc

\* the running minimum and maximum, updated for finite segSpeed only
TrackSpeed(acc, seg) ==
  IF IsFinite(seg.speed)
  THEN [acc EXCEPT !.minS = MathMin(acc.minS, seg.speed),
                   !.maxS = MathMax(acc.maxS, seg.speed)]
  ELSE acc

\* InnerLoop running while s <= subdivisions
RECURSIVE InnerLoopInclusive(_, _, _, _, _, _)
InnerLoopInclusive(a, b, i, s, subdivisions, acc) ==
  IF ~Le(I(s), subdivisions) THEN acc
  ELSE LET seg == MakeSegment(a, b, i, s, subdivisions)
           upd == TrackSpeed(acc, seg)
       IN  InnerLoopInclusive(a, b, i, s + 1, subdivisions,
                              [upd EXCEPT !.segs = Append(@, seg)])

\* for (let s = 0; s < subdivisions; s++) { ... segs.push(...) }
RECURSIVE InnerLoop(_, _, _, _, _, _)
InnerLoop(a, b, i, s, subdivisions, acc) ==
  IF ~Lt(I(s), subdivisions) THEN acc
  ELSE LET seg == MakeSegment(a, b, i, s, subdivisions)
           upd == TrackSpeed(acc, seg)
       IN  InnerLoop(a, b, i, s + 1, subdivisions,
                     [upd EXCEPT !.segs = Append(@, seg)])

\* for (let i = 0; i < points.length - 1; i++) { ... }
RECURSIVE OuterLoop(_, _, _, _)
OuterLoop(items, i, subdivisions, acc) ==
  IF ~(i < Len(items) - 1) THEN acc
  ELSE OuterLoop(items, i + 1, subdivisions,
                 InnerLoop(items[i + 1], items[i + 2], i, 0, subdivisions, acc))

\* the bounding box of the original points
RECURSIVE BoundingBox(_, _, _)
BoundingBox(items, j, box) ==
  IF j > Len(items) THEN box
  ELSE LET p == items[j]
       IN  BoundingBox(items, j + 1,
             [minLon |-> IF Lt(p.lon, box.minLon) THEN p.lon ELSE box.minLon,
              maxLon |-> IF Gt(p.lon, box.maxLon) THEN p.lon ELSE box.maxLon,
              minLat |-> IF Lt(p.lat, box.minLat) THEN p.lat ELSE box.minLat,
              maxLat |-> IF Gt(p.lat, box.maxLat) THEN p.lat ELSE box.maxLat])

\* ZoomFor with the thresholds included in the rung below them
ZoomForInclusive(span) ==
  LET z0 == 3
      z1 == IF Le(span, Q(8, 10)) THEN 5 ELSE z0
      z2 == IF Le(span, Q(4, 10)) THEN 6 ELSE z1
      z3 == IF Le(span, Q(2, 10)) THEN 7 ELSE z2
      z4 == IF Le(span, Q(1, 10)) THEN 8 ELSE z3
      z5 == IF Le(span, Q(5, 100)) THEN 9 ELSE z4
      z6 == IF Le(span, Q(25, 1000)) THEN 10 ELSE z5
  IN  z6

\* let zoom = 3; if (span < 0.8) zoom = 5; ... if (span < 0.025) zoom = 10;
ZoomFor(span) ==
  LET z0 == 3
      z1 == IF Lt(span, Q(8, 10)) THEN 5 ELSE z0
      z2 == IF Lt(span, Q(4, 10)) THEN 6 ELSE z1
      z3 == IF Lt(span, Q(2, 10)) THEN 7 ELSE z2
      z4 == IF Lt(span, Q(1, 10)) THEN 8 ELSE z3
      z5 == IF Lt(span, Q(5, 100)) THEN 9 ELSE z4
      z6 == IF Lt(span, Q(25, 1000)) THEN 10 ELSE z5
  IN  z6

InitialViewState(items) ==
  LET box == BoundingBox(items, 1,
               [minLon |-> PInf, maxLon |-> NInf, minLat |-> PInf, maxLat |-> NInf])
      span == MathMax(Sub(box.maxLon, box.minLon), Sub(box.maxLat, box.minLat))
  IN  [longitude |-> Div(Add(box.minLon, box.maxLon), I(2)),
       latitude |-> Div(Add(box.minLat, box.maxLat), I(2)),
       zoom |-> I(ZoomFor(span)),
       pitch |-> I(0), bearing |-> I(0)]

\* const gridSize = 0.02
BuildGridSize == Q(2, 100)

\* `${Math.floor(lon / gridSize)}_${Math.floor(lat / gridSize)}`: the key is
\* modelled as the pair of the two floors
GridKey(lon, lat, gridSize) ==
  <<MathFloor(Div(lon, gridSize)), MathFloor(Div(lat, gridSize))>>

\* the key of a segment's midpoint
MidpointKey(seg, gridSize) ==
  GridKey(Div(Add(seg.path[1][1], seg.path[2][1]), I(2)),
          Div(Add(seg.path[1][2], seg.path[2][2]), I(2)), gridSize)

\* PushToBucket starting the bucket afresh on every insertion
PushToBucketReplace(index, key, seg) ==
  [c \in (DOMAIN index) \cup {key} |-> IF c = key THEN <<seg>> ELSE index[c]]

\* (gridIndex[key] ||= []).push(s)
PushToBucket(index, key, seg) ==
  IF key \in DOMAIN index
  THEN [index EXCEPT ![key] = Append(@, seg)]
  ELSE [c \in (DOMAIN index) \cup {key} |->
          IF c = key THEN <<seg>> ELSE index[c]]

\* for (const s of segs) { ... }
RECURSIVE BuildGridIndex(_, _, _)
BuildGridIndex(segs, j, index) ==
  IF j > Len(segs) THEN index
  ELSE BuildGridIndex(segs, j + 1,
         PushToBucket(index, MidpointKey(segs[j], BuildGridSize), segs[j]))

\* the main path of buildSegments
BuildMain(points, options) ==
  LET acc == OuterLoop(points.items, 0, options.subdivisions,
                       [segs |-> <<>>, minS |-> PInf, maxS |-> NInf])
      minS == IF ~IsFinite(acc.minS) THEN I(0) ELSE acc.minS
      maxS == IF ~IsFinite(acc.maxS) THEN I(1) ELSE acc.maxS
  IN  [segments |-> acc.segs,
       minSpeed |-> Coalesce(options.minSpeedOverride, minS),
       maxSpeed |-> Coalesce(options.maxSpeedOverride, maxS),
       initialViewState |-> InitialViewState(points.items),
       gridIndex |-> BuildGridIndex(acc.segs, 1, EmptyIndex),
       gridSize |-> BuildGridSize]

\* buildSegments guarding only against an empty or missing array
buildSegmentsGuardEmpty(points, options) ==
  IF ~points.present \/ Len(points.items) < 1 THEN DegenerateResult(options)
  ELSE BuildMain(points, options)

\* buildSegments(points, options); points = [present, items]
buildSegments(points, options) ==
  IF ~points.present \/ Len(points.items) < 2 THEN DegenerateResult(options)
  ELSE BuildMain(points, options)

-----------------------------------------------------------------------------
(* createSpeedColorScale *)

\* A colour argument is an RGB array or a string; a string is modelled as the
\* sequence of its characters.
Rgb(r, g, b) == [isArray |-> TRUE, chars |-> <<>>, rgb |-> <<r, g, b>>]
Str(chars) == [isArray |-> FALSE, chars |-> chars, rgb |-> <<>>]

HexDigits == <<"0", "1", "2", "3", "4", "5", "6", "7", "8", "9",
               "a", "b", "c", "d", "e", "f">>
UpperHexDigits == <<"0", "1", "2", "3", "4", "5", "6", "7", "8", "9",
                    "A", "B", "C", "D", "E", "F">>

\* the value of a hexadecimal digit, -1 for any other character
HexVal(ch) ==
  IF \E j \in 1..16 : HexDigits[j] = ch
  THEN (CHOOSE j \in 1..16 : HexDigits[j] = ch) - 1
  ELSE IF \E j \in 1..16 : UpperHexDigits[j] = ch
  THEN (CHOOSE j \in 1..16 : UpperHexDigits[j] = ch) - 1
  ELSE -1

\* parseInt(c1 + c2, 16) for two characters out of the digits, letters and
\* "#": the longest prefix of hexadecimal digits, NaN when there is none
ParseHexPair(c1, c2) ==
  IF HexVal(c1) = -1 THEN NaN
  ELSE IF HexVal(c2) = -1 THEN I(HexVal(c1))
  ELSE I(16 * HexVal(c1) + HexVal(c2))

\* String.prototype.trim for the space character
RECURSIVE TrimLeft(_)
TrimLeft(cs) ==
  IF cs # <<>> /\ Head(cs) = " " THEN TrimLeft(Tail(cs)) ELSE cs

RECURSIVE TrimRight(_)
TrimRight(cs) ==
  IF cs # <<>> /\ cs[Len(cs)] = " " THEN TrimRight(SubSeq(cs, 1, Len(cs) - 1)) ELSE cs

Trim(cs) == TrimRight(TrimLeft(cs))

\* parseColor(c)
parseColor(c) ==
  IF c.isArray THEN c.rgb
  ELSE LET t == Trim(c.chars)
           s == IF t # <<>> /\ Head(t) = "#" THEN Tail(t) ELSE t
       IN  IF Len(s) = 3
           THEN <<ParseHexPair(s[1], s[1]), ParseHexPair(s[2], s[2]),
                  ParseHexPair(s[3], s[3])>>
           ELSE IF Len(s) = 6
           THEN <<ParseHexPair(s[1], s[2]), ParseHexPair(s[3], s[4]),
                  ParseHexPair(s[5], s[6])>>
           ELSE <<I(128), I(128), I(128)>>

\* the value a call returns, or the exception it raises
Returned(rgba) == [kind |-> "value", rgba |-> rgba]
Thrown(error) == [kind |-> error, rgba |-> <<>>]

\* lerpColor(a, b, t) for defined a and b
lerpColor(a, b, t) ==
  <<MathRound(lerp(a[1], b[1], t)),
    MathRound(lerp(a[2], b[2], t)),
    MathRound(lerp(a[3], b[3], t)),
    I(255)>>

\* ["#00aa00", "#ffff00", "#ffa500", "#ff0000"]
DefaultColors ==
  << Str(<<"#", "0", "0", "a", "a", "0", "0">>),
     Str(<<"#", "f", "f", "f", "f", "0", "0">>),
     Str(<<"#", "f", "f", "a", "5", "0", "0">>),
     Str(<<"#", "f", "f", "0", "0", "0", "0">>) >>

\* the closure createSpeedColorScale(minSpeed, maxSpeed, colors) returns:
\* the captured minSpeed and maxSpeed and the parsed stops
createSpeedColorScale(minSpeed, maxSpeed, colors) ==
  LET used == IF Len(colors) # 0 THEN colors ELSE DefaultColors
  IN  [minSpeed |-> minSpeed, maxSpeed |-> maxSpeed,
       stops |-> [j \in 1..Len(used) |-> parseColor(used[j])],
       n |-> Len(used)]

\* stops[i] for a number i: a stop for an integer index within the array,
\* undefined otherwise
HasStop(sc, i) == IsFinite(i) /\ i.d = 1 /\ i.n >= 0 /\ i.n < sc.n
StopAt(sc, i) == sc.stops[i.n + 1]

\* Normalise sending a zero-width domain to 0 or 1 by the sign of
\* speed - minSpeed
NormaliseBySign(sc, speed) ==
  LET span == Sub(sc.maxSpeed, sc.minSpeed)
      u == Div(Sub(speed, sc.minSpeed), span)
  IN  IF Truthy(span) THEN MathMax(I(0), MathMin(I(1), u))
      ELSE IF Gt(Sub(speed, sc.minSpeed), I(0)) THEN I(1) ELSE I(0)

\* Normalise without the clamp to [0, 1]
NormaliseNoClamp(sc, speed) ==
  LET span == OrElse(Sub(sc.maxSpeed, sc.minSpeed), I(1))
  IN  Div(Sub(speed, sc.minSpeed), span)

\* the normalised position: clamp((speed - minSpeed) / (span || 1), 0, 1)
Normalise(sc, speed) ==
  LET span == OrElse(Sub(sc.maxSpeed, sc.minSpeed), I(1))
      u == Div(Sub(speed, sc.minSpeed), span)
  IN  MathMax(I(0), MathMin(I(1), u))

\* the scale without the Number.isFinite test
ScaleNoFiniteTest(sc, speed) ==
  LET u == Normalise(sc, speed)
      scaled == Mul(u, I(sc.n - 1))
      i == MathFloor(scaled)
      t == Sub(scaled, i)
      j == MathMin(Add(i, I(1)), I(sc.n - 1))
  IN  IF sc.n = 1
      THEN Returned(<<sc.stops[1][1], sc.stops[1][2], sc.stops[1][3], I(255)>>)
      ELSE IF ~HasStop(sc, i) \/ ~HasStop(sc, j) THEN Thrown("TypeError")
      ELSE Returned(lerpColor(StopAt(sc, i), StopAt(sc, j), t))

\* the scale reading stops[i + 1] without the Math.min(i + 1, n - 1) clamp
ScaleNoIndexClamp(sc, speed) ==
  IF ~IsFinite(speed) THEN Returned(<<I(128), I(128), I(128), I(255)>>)
  ELSE LET u == Normalise(sc, speed)
           scaled == Mul(u, I(sc.n - 1))
           i == MathFloor(scaled)
           t == Sub(scaled, i)
           j == Add(i, I(1))
       IN  IF sc.n = 1
           THEN Returned(<<sc.stops[1][1], sc.stops[1][2], sc.stops[1][3], I(255)>>)
           ELSE IF ~HasStop(sc, i) \/ ~HasStop(sc, j) THEN Thrown("TypeError")
           ELSE Returned(lerpColor(StopAt(sc, i), StopAt(sc, j), t))

\* the scale without the n === 1 branch
ScaleNoSingleStop(sc, speed) ==
  IF ~IsFinite(speed) THEN Returned(<<I(128), I(128), I(128), I(255)>>)
  ELSE LET u == Normalise(sc, speed)
           scaled == Mul(u, I(sc.n - 1))
           i == MathFloor(scaled)
           t == Sub(scaled, i)
           j == MathMin(Add(i, I(1)), I(sc.n - 1))
       IN  IF ~HasStop(sc, i) \/ ~HasStop(sc, j) THEN Thrown("TypeError")
           ELSE Returned(lerpColor(StopAt(sc, i), StopAt(sc, j), t))

\* (speed) => RGBA, the function createSpeedColorScale returns; reading
\* index 0 of an undefined stop raises a TypeError
Scale(sc, speed) ==
  IF ~IsFinite(speed) THEN Returned(<<I(128), I(128), I(128), I(255)>>)
  ELSE LET u == Normalise(sc, speed)
           scaled == Mul(u, I(sc.n - 1))
           i == MathFloor(scaled)
           t == Sub(scaled, i)
           j == MathMin(Add(i, I(1)), I(sc.n - 1))
       IN  IF sc.n = 1
           THEN Returned(<<sc.stops[1][1], sc.stops[1][2], sc.stops[1][3], I(255)>>)
           ELSE IF ~HasStop(sc, i) \/ ~HasStop(sc, j) THEN Thrown("TypeError")
           ELSE Returned(lerpColor(StopAt(sc, i), StopAt(sc, j), t))

\* makeSpeedToColor(minSpeed, maxSpeed) of the earlier in-component version:
\* four fixed stops at 0, 1/3, 2/3 and 1
LegacyStops ==
  << [t |-> I(0), color |-> <<I(0), I(170), I(0)>>],
     [t |-> Q(1, 3), color |-> <<I(255), I(255), I(0)>>],
     [t |-> Q(2, 3), color |-> <<I(255), I(165), I(0)>>],
     [t |-> I(1), color |-> <<I(255), I(0), I(0)>>] >>

\* while (i < stops.length - 1 && u > stops[i + 1].t) i++
RECURSIVE LegacyStopIndex(_, _)
LegacyStopIndex(u, i) ==
  IF i < Len(LegacyStops) - 1 /\ Gt(u, LegacyStops[i + 2].t)
  THEN LegacyStopIndex(u, i + 1) ELSE i

makeSpeedToColor(minSpeed, maxSpeed, speed) ==
  IF ~IsFinite(speed) THEN <<I(128), I(128), I(128), I(255)>>
  ELSE LET span == OrElse(Sub(maxSpeed, minSpeed), I(1))
           u == MathMax(I(0), MathMin(I(1), Div(Sub(speed, minSpeed), span)))
           i == LegacyStopIndex(u, 0)
           a == LegacyStops[i + 1]
           b == LegacyStops[(IF i + 1 < Len(LegacyStops) - 1 THEN i + 1
                             ELSE Len(LegacyStops) - 1) + 1]
           localT == Div(Sub(u, a.t), OrElse(Sub(b.t, a.t), I(1)))
       IN  lerpColor(a.color, b.color, localT)

-----------------------------------------------------------------------------
(* findNearestPointOnTrack *)

\* metersPerDegree(latRad), by the latitude in degrees.  The model's tracks
\* lie within a fifth of a degree of the equator, where both factors stay
\* within 0.7% of 111 km per degree: distances are measured in that unit, in
\* which both factors are 1.  The cosine of a non-finite latitude is NaN.
metersPerDegree(lat) ==
  IF IsFinite(lat) THEN [mPerDegLat |-> I(1), mPerDegLon |-> I(1)]
  ELSE [mPerDegLat |-> NaN, mPerDegLon |-> NaN]

\* ProjectionT without the division by the squared length of the segment
ProjectionTNoLength(s, lon, lat) ==
  LET x1 == s.path[1][1]
      y1 == s.path[1][2]
      x2 == s.path[2][1]
      y2 == s.path[2][2]
      m == metersPerDegree(Div(Add(y1, y2), I(2)))
      ax == Mul(Sub(x1, lon), m.mPerDegLon)
      ay == Mul(Sub(y1, lat), m.mPerDegLat)
      vx == Mul(Sub(x2, x1), m.mPerDegLon)
      vy == Mul(Sub(y2, y1), m.mPerDegLat)
      t == Neg(Add(Mul(ax, vx), Mul(ay, vy)))
  IN  MathMax(I(0), MathMin(I(1), t))

\* ProjectionT without the clamp to [0, 1]
ProjectionTUnclamped(s, lon, lat) ==
  LET x1 == s.path[1][1]
      y1 == s.path[1][2]
      x2 == s.path[2][1]
      y2 == s.path[2][2]
      m == metersPerDegree(Div(Add(y1, y2), I(2)))
      ax == Mul(Sub(x1, lon), m.mPerDegLon)
      ay == Mul(Sub(y1, lat), m.mPerDegLat)
      vx == Mul(Sub(x2, x1), m.mPerDegLon)
      vy == Mul(Sub(y2, y1), m.mPerDegLat)
      vLen2 == OrElse(Add(Mul(vx, vx), Mul(vy, vy)), I(1))
  IN  Div(Neg(Add(Mul(ax, vx), Mul(ay, vy))), vLen2)

\* ProjectionT dividing by the squared length as it is, zero included
ProjectionTNoGuard(s, lon, lat) ==
  LET x1 == s.path[1][1]
      y1 == s.path[1][2]
      x2 == s.path[2][1]
      y2 == s.path[2][2]
      m == metersPerDegree(Div(Add(y1, y2), I(2)))
      ax == Mul(Sub(x1, lon), m.mPerDegLon)
      ay == Mul(Sub(y1, lat), m.mPerDegLat)
      vx == Mul(Sub(x2, x1), m.mPerDegLon)
      vy == Mul(Sub(y2, y1), m.mPerDegLat)
      vLen2 == Add(Mul(vx, vx), Mul(vy, vy))
      t == Div(Neg(Add(Mul(ax, vx), Mul(ay, vy))), vLen2)
  IN  MathMax(I(0), MathMin(I(1), t))

\* the clamped projection parameter t of the query point on segment s
ProjectionT(s, lon, lat) ==
  LET x1 == s.path[1][1]
      y1 == s.path[1][2]
      x2 == s.path[2][1]
      y2 == s.path[2][2]
      m == metersPerDegree(Div(Add(y1, y2), I(2)))
      ax == Mul(Sub(x1, lon), m.mPerDegLon)
      ay == Mul(Sub(y1, lat), m.mPerDegLat)
      vx == Mul(Sub(x2, x1), m.mPerDegLon)
      vy == Mul(Sub(y2, y1), m.mPerDegLat)
      vLen2 == OrElse(Add(Mul(vx, vx), Mul(vy, vy)), I(1))
      t == Div(Neg(Add(Mul(ax, vx), Mul(ay, vy))), vLen2)
  IN  MathMax(I(0), MathMin(I(1), t))

\* Projection measuring the distance along the longitude only
ProjectionLonOnly(s, lon, lat) ==
  LET x1 == s.path[1][1]
      x2 == s.path[2][1]
      y1 == s.path[1][2]
      y2 == s.path[2][2]
      m == metersPerDegree(Div(Add(y1, y2), I(2)))
      t == ProjectionT(s, lon, lat)
      projLon == Add(x1, Mul(Sub(x2, x1), t))
      projLat == Add(y1, Mul(Sub(y2, y1), t))
      dx == Mul(Sub(projLon, lon), m.mPerDegLon)
  IN  [isNull |-> FALSE, lon |-> projLon, lat |-> projLat,
       speed |-> Add(s.speed0, Mul(Sub(s.speed1, s.speed0), t)),
       timestamp |-> Add(s.time0, Mul(Sub(s.time1, s.time0), t)),
       distSq |-> Add(Mul(dx, dx), Mul(dx, dx))]

\* Projection reporting the segment's mid speed and mid timestamp
ProjectionMidValues(s, lon, lat) ==
  LET x1 == s.path[1][1]
      y1 == s.path[1][2]
      x2 == s.path[2][1]
      y2 == s.path[2][2]
      m == metersPerDegree(Div(Add(y1, y2), I(2)))
      t == ProjectionT(s, lon, lat)
      projLon == Add(x1, Mul(Sub(x2, x1), t))
      projLat == Add(y1, Mul(Sub(y2, y1), t))
      dx == Mul(Sub(projLon, lon), m.mPerDegLon)
      dy == Mul(Sub(projLat, lat), m.mPerDegLat)
  IN  [isNull |-> FALSE, lon |-> projLon, lat |-> projLat,
       speed |-> s.speed, timestamp |-> s.timestamp,
       distSq |-> Add(Mul(dx, dx), Mul(dy, dy))]

\* the body of the candidate loop for segment s: the projected point with
\* its interpolated speed and timestamp.  Math.sqrt is strictly increasing
\* on [0, +Infinity] and keeps NaN and +Infinity, so the record carries
\* distSq = dx * dx + dy * dy, the radicand of distMeters: comparing two
\* distances, and testing one against 0 or for finiteness, agree on both.
Projection(s, lon, lat) ==
  LET x1 == s.path[1][1]
      y1 == s.path[1][2]
      x2 == s.path[2][1]
      y2 == s.path[2][2]
      m == metersPerDegree(Div(Add(y1, y2), I(2)))
      t == ProjectionT(s, lon, lat)
      projLon == Add(x1, Mul(Sub(x2, x1), t))
      projLat == Add(y1, Mul(Sub(y2, y1), t))
      dx == Mul(Sub(projLon, lon), m.mPerDegLon)
      dy == Mul(Sub(projLat, lat), m.mPerDegLat)
  IN  [isNull |-> FALSE, lon |-> projLon, lat |-> projLat,
       speed |-> Add(s.speed0, Mul(Sub(s.speed1, s.speed0), t)),
       timestamp |-> Add(s.time0, Mul(Sub(s.time1, s.time0), t)),
       distSq |-> Add(Mul(dx, dx), Mul(dy, dy))]

\* the absent result
Null ==
  [isNull |-> TRUE, lon |-> I(0), lat |-> I(0), speed |-> I(0),
   timestamp |-> I(0), distSq |-> I(0)]

\* ScanCandidates replacing best by a candidate that is as close
RECURSIVE ScanCandidatesLastWins(_, _, _, _, _)
ScanCandidatesLastWins(candidates, j, lon, lat, best) ==
  IF j > Len(candidates) THEN best
  ELSE LET r == Projection(candidates[j], lon, lat)
       IN  ScanCandidatesLastWins(candidates, j + 1, lon, lat,
             IF best.isNull \/ Le(r.distSq, best.distSq) THEN r ELSE best)

\* for (const s of candidates) { ... if (!best || dist < best.distMeters) best = ... }
RECURSIVE ScanCandidates(_, _, _, _, _)
ScanCandidates(candidates, j, lon, lat, best) ==
  IF j > Len(candidates) THEN best
  ELSE LET r == Projection(candidates[j], lon, lat)
       IN  ScanCandidates(candidates, j + 1, lon, lat,
             IF best.isNull \/ Lt(r.distSq, best.distSq) THEN r ELSE best)

\* the position in candidates of the segment s of the iteration that last
\* assigned best, 0 while best is null
RECURSIVE ScanWinner(_, _, _, _, _)
ScanWinner(candidates, j, lon, lat, w) ==
  IF j > Len(candidates) THEN w
  ELSE ScanWinner(candidates, j + 1, lon, lat,
         IF w = 0 \/ Lt(Projection(candidates[j], lon, lat).distSq,
                        Projection(candidates[w], lon, lat).distSq)
         THEN j ELSE w)

\* the optional arguments gridIndex and gridSize
NoIndex == [hasIndex |-> FALSE, gridIndex |-> EmptyIndex, gridSize |-> Absent]
WithIndex(gridIndex, gridSize) ==
  [hasIndex |-> TRUE, gridIndex |-> gridIndex, gridSize |-> Given(gridSize)]

\* AddAll appending every segment, whether the set holds it or not
RECURSIVE AddAllNoDedup(_, _, _)
AddAllNoDedup(set, arr, j) ==
  IF j > Len(arr) THEN set
  ELSE AddAllNoDedup(Append(set, arr[j]), arr, j + 1)

\* for (const seg of arr) set.add(seg): a Set keeps insertion order and
\* holds each segment once
RECURSIVE AddAll(_, _, _)
AddAll(set, arr, j) ==
  IF j > Len(arr) THEN set
  ELSE AddAll(IF \E q \in 1..Len(set) : set[q] = arr[j] THEN set
              ELSE Append(set, arr[j]),
              arr, j + 1)

\* the two loops over dx and dy in -1..1, c counting the nine cells
RECURSIVE GatherBlock(_, _, _, _, _)
GatherBlock(gridIndex, gx, gy, c, set) ==
  IF c > 8 THEN set
  ELSE LET dx == (c \div 3) - 1
           dy == (c % 3) - 1
           key == <<Add(gx, I(dx)), Add(gy, I(dy))>>
       IN  GatherBlock(gridIndex, gx, gy, c + 1,
             IF key \in DOMAIN gridIndex THEN AddAll(set, gridIndex[key], 1)
             ELSE set)

\* the segments collected from the 3x3 block of cells around the query point
BlockSet(lon, lat, index) ==
  GatherBlock(index.gridIndex,
              MathFloor(Div(lon, index.gridSize.v)),
              MathFloor(Div(lat, index.gridSize.v)), 0, <<>>)

\* if (gridIndex && gridSize)
UsesIndex(index) ==
  index.hasIndex /\ index.gridSize.set /\ Truthy(index.gridSize.v)

\* Candidates without the fall-back to all segments
CandidatesNoFallback(lon, lat, segments, index) ==
  IF UsesIndex(index) THEN BlockSet(lon, lat, index) ELSE segments

\* Candidates looking at the query point's own cell only
CandidatesOwnCell(lon, lat, segments, index) ==
  IF UsesIndex(index)
  THEN LET key == GridKey(lon, lat, index.gridSize.v)
           set == IF key \in DOMAIN index.gridIndex
                  THEN AddAll(<<>>, index.gridIndex[key], 1) ELSE <<>>
       IN  IF Len(set) # 0 THEN set ELSE segments
  ELSE segments

\* the candidates searched
Candidates(lon, lat, segments, index) ==
  IF UsesIndex(index)
  THEN LET set == BlockSet(lon, lat, index)
       IN  IF Len(set) # 0 THEN set ELSE segments
  ELSE segments

\* findNearestPointOnTrack(lon, lat, segments, gridIndex?, gridSize?)
findNearestPointOnTrack(lon, lat, segments, index) ==
  IF Len(segments) = 0 THEN Null
  ELSE ScanCandidates(Candidates(lon, lat, segments, index), 1, lon, lat, Null)

-----------------------------------------------------------------------------
(* Inputs and state *)

\* bounds of the model
MaxLen == 3
MaxSub == 3

Pt(lon, lat, speed, timestamp) ==
  [lon |-> lon, lat |-> lat, speed |-> speed, timestamp |-> timestamp]

\* the samples the builds draw from: finite ones and ones whose speed is
\* missing (NaN) or unbounded (Infinity)
SamplePoints ==
  { Pt(I(0), I(0), I(0), I(0)),
    Pt(I(1), I(0), I(10), I(1000)),
    Pt(Q(4, 100), Q(1, 100), I(30), I(2000)),
    Pt(Q(2, 100), I(0), NaN, I(3000)),
    Pt(I(0), Q(1, 100), PInf, I(4000)) }

RECURSIVE SeqsUpTo(_, _)
SeqsUpTo(S, n) ==
  IF n = 0 THEN {<<>>}
  ELSE LET shorter == SeqsUpTo(S, n - 1)
       IN  shorter \cup {Append(q, x) : q \in {r \in shorter : Len(r) = n - 1}, x \in S}

\* the points argument: missing, or an array of at most MaxLen samples
PointsInputs ==
  {[present |-> FALSE, items |-> <<>>]}
    \cup {[present |-> TRUE, items |-> q] : q \in SeqsUpTo(SamplePoints, MaxLen)}

OverrideInputs == {Absent, Given(I(0)), Given(I(20))}

OptionsInputs ==
  [subdivisions : {I(n) : n \in 0..MaxSub},
   minSpeedOverride : OverrideInputs,
   maxSpeedOverride : OverrideInputs]

\* the arguments of createSpeedColorScale and of the scale it returns
MaxStops == 3

ColorInputs ==
  { Str(<<"#", "0", "0", "0", "0", "0", "0">>),
    Str(<<"#", "f", "f", "f", "f", "f", "f">>),
    Str(<<" ", "#", "F", "0", "0">>),
    Rgb(Q(1, 2), I(170), I(0)) }

DomainInputs == {I(0), I(100), NaN, PInf}

SpeedInputs == {I(-50), I(0), Q(1, 2), I(50), I(100), I(150), NaN, PInf, NInf}

ScaleInputs ==
  [minSpeed : DomainInputs, maxSpeed : DomainInputs,
   colors : SeqsUpTo(ColorInputs, MaxStops)]

VARIABLES
  points,    \* the points argument of buildSegments
  options,   \* the options argument of buildSegments
  built,     \* [done, result]: the BuildResult once buildSegments has returned
  colorArgs, \* the arguments of createSpeedColorScale
  scale,     \* [made, fn]: the scale once createSpeedColorScale has returned
  shade,     \* [called, speed, out, legacy]: the last call of the scale
  lookup,    \* [called, lon, lat, mode, out]: the last call of findNearestPointOnTrack
  scan,      \* [candidates]: the candidates that call looped over
  heap,      \* the segment objects allocated so far, by object identity
  session,   \* [results, last]: the BuildResults a caller holds, their
             \* segments and buckets as object identities, and its last look-up
  palette,   \* [scales, calls]: the scales a caller holds, each with the
             \* arguments it was created from, and the log of their calls
  track,     \* [done, segments]: the segments array of buildSegments as
             \* rounded arithmetic computes it
  nearestPoint, \* the component's nearestPoint state: a NearestResult or null
  tooltip,   \* the component's tooltip state: [shown, x, y], null when not shown
  hover,     \* [handled, info]: the last event handleHover was called with
  loading,   \* the component's loading state
  error,     \* the component's error state: [isNull, message]
  loads,     \* the runs of the route-loading effect, oldest first: [cancelled,
             \* pc, settled], pc the await the call of load() stands at
  map,       \* the map: [zoom, bbox] of its view, the number of moveend
             \* listeners registered by onLoad, the number of moveend events
  prevClusterState, \* prevClusterState.current: [isNull, zoom, bbox, hash]
  clusterZoom,      \* the component's clusterZoom state
  clusterData,      \* the component's clusterData state
  work       \* [composed, sets]: the calls of composeClusterRenderable and
             \* of setClusterData made by updateClusters so far

buildVars == <<points, options, built>>
scaleVars == <<colorArgs, scale, shade>>
nearestVars == <<lookup, scan>>
sessionVars == <<heap, session>>
hoverVars == <<nearestPoint, tooltip, hover>>
routeVars == <<loading, error, loads>>
clusterVars == <<map, prevClusterState, clusterZoom, clusterData, work>>
appVars == <<palette, track, hoverVars, routeVars, clusterVars>>
vars ==
  <<points, options, built, colorArgs, scale, shade, lookup, scan, heap, session,
    palette, track, nearestPoint, tooltip, hover, loading, error, loads,
    map, prevClusterState, clusterZoom, clusterData, work>>

NotBuilt == [done |-> FALSE, result |-> DegenerateResult([minSpeedOverride |-> Absent, maxSpeedOverride |-> Absent])]

NoOptions ==
  [subdivisions |-> I(1), minSpeedOverride |-> Absent, maxSpeedOverride |-> Absent]
NoPoints == [present |-> TRUE, items |-> <<>>]
NoColorArgs == [minSpeed |-> I(0), maxSpeed |-> I(1), colors |-> <<>>]
NoScale == [made |-> FALSE, fn |-> createSpeedColorScale(I(0), I(1), <<>>)]
NoShade ==
  [called |-> FALSE, speed |-> I(0), out |-> Returned(<<>>), legacy |-> <<>>]

NoLookup ==
  [called |-> FALSE, lon |-> I(0), lat |-> I(0), mode |-> "none", out |-> Null]

NoScan == [candidates |-> <<>>]

NearestIdle == lookup = NoLookup /\ scan = NoScan

NoCall ==
  [called |-> FALSE, result |-> 0, lon |-> I(0), lat |-> I(0), mode |-> "none",
   out |-> Null]
NoSession == [results |-> <<>>, last |-> NoCall]

SessionIdle == heap = <<>> /\ session = NoSession

NoPalette == [scales |-> <<>>, calls |-> <<>>]

NoTrack == [done |-> FALSE, segments |-> <<>>]

NoTooltip == [shown |-> FALSE, x |-> I(0), y |-> I(0)]
NoCoordinate == [set |-> FALSE, lon |-> I(0), lat |-> I(0)]
NoInfo ==
  [coordinate |-> NoCoordinate, x |-> Absent, y |-> Absent,
   metersPerPixel |-> Absent, mPerPxApprox |-> Absent,
   project |-> "none", projected |-> <<>>]
NoHover == [handled |-> FALSE, info |-> NoInfo]

HoverIdle == nearestPoint = Null /\ tooltip = NoTooltip /\ hover = NoHover

NoError == [isNull |-> TRUE, message |-> ""]
RouteIdle == loading = FALSE /\ error = NoError /\ loads = <<>>

\* computeBbox(lon, lat, delta)
computeBbox(lon, lat, delta) ==
  <<Sub(lon, delta), Sub(lat, delta), Add(lon, delta), Add(lat, delta)>>

\* The cluster index is supercluster's.  Its getClusters(bbox, zoom) is
\* represented by a fixed index of three events: up to zoom 3 the first two
\* form a cluster of two, from zoom 4 on every event stands alone; the
\* features inside bbox are returned.
ClusterFeatures(zoom) ==
  IF zoom <= 3
  THEN << [id |-> 1001, lon |-> Q(5, 2), lat |-> I(5), cluster |-> TRUE, point_count |-> 2],
          [id |-> 3, lon |-> I(25), lat |-> I(5), cluster |-> FALSE, point_count |-> 0] >>
  ELSE << [id |-> 1, lon |-> I(2), lat |-> I(5), cluster |-> FALSE, point_count |-> 0],
          [id |-> 2, lon |-> I(3), lat |-> I(5), cluster |-> FALSE, point_count |-> 0],
          [id |-> 3, lon |-> I(25), lat |-> I(5), cluster |-> FALSE, point_count |-> 0] >>

InBbox(f, bbox) ==
  /\ Le(bbox[1], f.lon) /\ Le(f.lon, bbox[3])
  /\ Le(bbox[2], f.lat) /\ Le(f.lat, bbox[4])

RECURSIVE Inside(_, _, _)
Inside(features, bbox, i) ==
  IF i > Len(features) THEN <<>>
  ELSE (IF InBbox(features[i], bbox) THEN <<features[i]>> ELSE <<>>)
         \o Inside(features, bbox, i + 1)

getClusters(bbox, zoom) == Inside(ClusterFeatures(zoom), bbox, 1)

\* composeClusterRenderable(index, bbox, zoom)
composeClusterRenderable(bbox, zoom) ==
  LET items == getClusters(bbox, MathFloor(zoom).n)
  IN  [i \in 1..Len(items) |->
         [id |-> items[i].id, longitude |-> items[i].lon,
          latitude |-> items[i].lat,
          pointCount |-> IF items[i].cluster THEN items[i].point_count ELSE 1,
          isCluster |-> items[i].cluster]]

\* renderable.map((d) => `${d.id}:${d.pointCount}`).join("|"), as the list
\* of the pairs it is written from
RenderableHash(renderable) ==
  [i \in 1..Len(renderable) |-> <<renderable[i].id, renderable[i].pointCount>>]

NoClusterState == [isNull |-> TRUE, zoom |-> I(0), bbox |-> <<>>, hash |-> <<>>]
InitialView == [zoom |-> I(3), bbox |-> <<I(0), I(0), I(10), I(10)>>]
NoMap == [zoom |-> InitialView.zoom, bbox |-> InitialView.bbox, listeners |-> 0, moves |-> 0]
NoWork == [composed |-> 0, sets |-> 0]

\* the component after its first render, before the map has loaded
ClusterIdle ==
  /\ map = NoMap
  /\ prevClusterState = NoClusterState
  /\ clusterZoom = I(3)
  /\ clusterData = composeClusterRenderable(computeBbox(I(5), I(5), I(80)), I(3))
  /\ work = NoWork

AppIdle ==
  palette = NoPalette /\ track = NoTrack /\ HoverIdle /\ RouteIdle /\ ClusterIdle

BuildIdle == points = NoPoints /\ options = NoOptions /\ built = NotBuilt
ScaleIdle == colorArgs = NoColorArgs /\ scale = NoScale /\ shade = NoShade

InitBuild ==
  /\ points \in PointsInputs
  /\ options \in OptionsInputs
  /\ built = NotBuilt
  /\ ScaleIdle
  /\ NearestIdle
  /\ SessionIdle
  /\ AppIdle

\* a call buildSegments(points, options)
Build ==
  /\ ~built.done
  /\ built' = [done |-> TRUE, result |-> buildSegments(points, options)]
  /\ UNCHANGED <<points, options, scaleVars, nearestVars, sessionVars, appVars>>

NextBuild == Build

SpecBuild == InitBuild /\ [][NextBuild]_vars

\* the samples whose extents frame the initial view: longitudes on and
\* between the thresholds of the zoom ladder, a sample off the parallel and
\* one with an unbounded latitude
ViewPoints ==
  { Pt(I(0), I(0), I(0), I(0)),
    Pt(Q(25, 1000), I(0), I(1), I(1)),
    Pt(Q(5, 100), I(0), I(2), I(2)),
    Pt(Q(1, 10), I(0), I(3), I(3)),
    Pt(Q(2, 10), I(0), I(4), I(4)),
    Pt(Q(4, 10), I(0), I(5), I(5)),
    Pt(Q(8, 10), I(0), I(6), I(6)),
    Pt(I(1), I(0), I(7), I(7)),
    Pt(I(0), Q(3, 10), I(8), I(8)),
    Pt(I(0), PInf, I(9), I(9)) }

ViewTracks ==
  {[present |-> TRUE, items |-> q] : q \in SeqsUpTo(ViewPoints, MaxLen)}

InitView ==
  /\ points \in ViewTracks
  /\ options = NoOptions
  /\ built = NotBuilt
  /\ ScaleIdle
  /\ NearestIdle
  /\ SessionIdle
  /\ AppIdle

SpecView == InitView /\ [][NextBuild]_vars

InitScale ==
  /\ colorArgs \in ScaleInputs
  /\ scale = NoScale
  /\ shade = NoShade
  /\ BuildIdle
  /\ NearestIdle
  /\ SessionIdle
  /\ AppIdle

\* a call createSpeedColorScale(minSpeed, maxSpeed, colors)
CreateScale ==
  /\ ~scale.made
  /\ scale' = [made |-> TRUE,
               fn |-> createSpeedColorScale(colorArgs.minSpeed, colorArgs.maxSpeed,
                                            colorArgs.colors)]
  /\ UNCHANGED <<colorArgs, shade, buildVars, nearestVars, sessionVars, appVars>>

\* a call of the returned scale (and of makeSpeedToColor's for the same domain)
CallScale(speed) ==
  /\ scale.made
  /\ shade' = [called |-> TRUE, speed |-> speed,
               out |-> Scale(scale.fn, speed),
               legacy |-> makeSpeedToColor(colorArgs.minSpeed, colorArgs.maxSpeed, speed)]
  /\ UNCHANGED <<colorArgs, scale, buildVars, nearestVars, sessionVars, appVars>>

NextScale == CreateScale \/ \E speed \in SpeedInputs : CallScale(speed)

SpecScale == InitScale /\ [][NextScale]_vars

\* the tracks the look-ups run on: finite samples close to the equator, among
\* them tracks that run back over themselves and long legs off the parallel
TrackPoints ==
  { Pt(Q(4, 100), I(0), I(0), I(0)),
    Pt(I(0), I(0), I(10), I(1000)),
    Pt(Q(2, 100), I(0), I(20), I(2000)),
    Pt(Q(1, 100), Q(12, 100), I(30), I(3000)) }

TrackInputs ==
  {[present |-> TRUE, items |-> q] : q \in SeqsUpTo(TrackPoints, MaxLen)}

TrackOptions ==
  [subdivisions : {I(1), I(2)},
   minSpeedOverride : {Absent}, maxSpeedOverride : {Absent}]

\* the query points: on the track, beside it, and non-finite ones
QueryInputs ==
  { <<Q(2, 100), I(0)>>, <<Q(1, 100), Q(1, 100)>>, <<Q(3, 100), Q(2, 100)>>,
    <<NaN, I(0)>>, <<Q(2, 100), PInf>>, <<NInf, NaN>> }

\* how the caller passes gridIndex and gridSize
IndexModes ==
  {"none", "build", "empty", "sparse", "doubled", "zeroSize", "noSize"}

\* gridIndex without the bucket that holds segment seg
WithoutBucketOf(gridIndex, seg) ==
  [c \in (DOMAIN gridIndex) \ {MidpointKey(seg, BuildGridSize)} |-> gridIndex[c]]

IndexFor(mode, result) ==
  CASE mode = "none" -> NoIndex
    [] mode = "build" -> WithIndex(result.gridIndex, result.gridSize)
    [] mode = "empty" -> WithIndex(EmptyIndex, result.gridSize)
    [] mode = "sparse" ->
         WithIndex(IF Len(result.segments) = 0 THEN result.gridIndex
                   ELSE WithoutBucketOf(result.gridIndex,
                                        result.segments[Len(result.segments)]),
                   result.gridSize)
    [] mode = "doubled" ->
         WithIndex([c \in DOMAIN result.gridIndex |->
                      result.gridIndex[c] \o result.gridIndex[c]],
                   result.gridSize)
    [] mode = "zeroSize" -> WithIndex(result.gridIndex, I(0))
    [] OTHER -> [hasIndex |-> TRUE, gridIndex |-> result.gridIndex,
                 gridSize |-> Absent]

InitNearest ==
  /\ points \in TrackInputs
  /\ options \in TrackOptions
  /\ built = NotBuilt
  /\ ScaleIdle
  /\ NearestIdle
  /\ SessionIdle
  /\ AppIdle

\* a call findNearestPointOnTrack(lon, lat, segments, gridIndex?, gridSize?)
\* on the segments of the build.  The call changes neither the segments nor
\* the index, so a behaviour makes one call, from the state every call sees.
Nearest(lon, lat, mode) ==
  /\ built.done
  /\ ~lookup.called
  /\ lookup' = [called |-> TRUE, lon |-> lon, lat |-> lat, mode |-> mode,
                out |-> findNearestPointOnTrack(lon, lat, built.result.segments,
                                                IndexFor(mode, built.result))]
  /\ scan' = [candidates |->
                IF Len(built.result.segments) = 0 THEN <<>>
                ELSE Candidates(lon, lat, built.result.segments,
                                IndexFor(mode, built.result))]
  /\ UNCHANGED <<buildVars, scaleVars, sessionVars, appVars>>

NextNearest ==
  \/ Build
  \/ \E q \in QueryInputs, mode \in IndexModes : Nearest(q[1], q[2], mode)

SpecNearest == InitNearest /\ [][NextNearest]_vars

\* the tracks probed at their own segment endpoints: the two samples one
\* degree apart, a sample whose speed is unbounded and one whose longitude is
\* missing
ProbePoints ==
  { Pt(I(0), I(0), I(0), I(0)),
    Pt(I(1), I(0), I(10), I(1000)),
    Pt(I(1), I(1), PInf, I(2000)),
    Pt(NaN, I(0), I(20), I(3000)) }

ProbeTracks ==
  {[present |-> TRUE, items |-> q] : q \in SeqsUpTo(ProbePoints, MaxLen)}

\* query points off the track: beyond its ends and beside it
BesideQueries == { <<I(2), I(0)>>, <<I(-1), I(-1)>>, <<Q(1, 2), Q(1, 2)>> }

ProbeModes == {"none", "build"}

InitProbe ==
  /\ points \in ProbeTracks
  /\ options \in TrackOptions
  /\ built = NotBuilt
  /\ ScaleIdle
  /\ NearestIdle
  /\ SessionIdle
  /\ AppIdle

\* the endpoints P = segments[k].path[e] of the segments of the build
Endpoints ==
  {built.result.segments[k].path[e] :
     k \in 1..Len(built.result.segments), e \in 1..2}

\* the calls findNearestPointOnTrack(P.lon, P.lat, segments, ...) for the
\* endpoints P and for the points off the track
NextProbe ==
  \/ Build
  \/ \E q \in Endpoints \cup BesideQueries, mode \in ProbeModes :
       Nearest(q[1], q[2], mode)

SpecProbe == InitProbe /\ [][NextProbe]_vars

\* A caller that keeps several BuildResults and calls the three functions in
\* any order.  Objects are told apart by identity: heap[id] is the segment
\* object id, and a held BuildResult lists its segments and its buckets by
\* identity.

\* the number of BuildResults a session holds at most
MaxBuilds == 2

\* Allocate handing out the identities 1..n again on every call
AllocatePooled(objects, n) == [j \in 1..n |-> j]

\* segs.push({ ... }): the identities of the n objects one call creates
Allocate(objects, n) == [j \in 1..n |-> Len(objects) + j]

\* the heap once the objects ids hold the segments segs
Store(objects, ids, segs) ==
  LET size == IF Len(ids) > 0 /\ ids[Len(ids)] > Len(objects)
              THEN ids[Len(ids)] ELSE Len(objects)
  IN  [id \in 1..size |->
         IF \E j \in 1..Len(ids) : ids[j] = id
         THEN segs[CHOOSE j \in 1..Len(ids) : ids[j] = id]
         ELSE objects[id]]

\* the BuildResult as the caller holds it: segments and buckets refer to
\* the same objects
Held(result, opts, ids) ==
  [opts |-> opts,
   segments |-> ids,
   gridIndex |->
     [c \in DOMAIN result.gridIndex |->
        [q \in 1..Len(result.gridIndex[c]) |->
           ids[CHOOSE j \in 1..Len(result.segments) :
                 result.segments[j] = result.gridIndex[c][q]]]],
   gridSize |-> result.gridSize]

\* what the held BuildResult reads as through the heap
Deref(objects, held) ==
  [segments |-> [j \in 1..Len(held.segments) |-> objects[held.segments[j]]],
   gridIndex |->
     [c \in DOMAIN held.gridIndex |->
        [q \in 1..Len(held.gridIndex[c]) |-> objects[held.gridIndex[c][q]]]],
   gridSize |-> held.gridSize]

SessionTracks ==
  { [present |-> TRUE, items |-> q] : q \in
      { <<Pt(I(0), I(0), I(0), I(0)), Pt(I(1), I(0), I(10), I(1000))>>,
        <<Pt(Q(4, 100), I(0), I(0), I(0)), Pt(I(0), I(0), I(10), I(1000)),
          Pt(Q(2, 100), I(0), I(20), I(2000))>>,
        <<Pt(I(0), I(0), I(0), I(0))>> } }

SessionScales ==
  { [minSpeed |-> I(0), maxSpeed |-> I(100), colors |-> <<>>],
    [minSpeed |-> I(0), maxSpeed |-> I(0),
     colors |-> <<Rgb(Q(1, 2), I(170), I(0)),
                  Str(<<"#", "f", "f", "f", "f", "f", "f">>)>>] }

SessionQueries == { <<Q(2, 100), I(0)>>, <<Q(1, 2), Q(1, 2)>>, <<NaN, I(0)>> }
SessionSpeeds == { I(0), Q(1, 2), I(150), NaN }

InitSession ==
  /\ points \in SessionTracks
  /\ options = NoOptions
  /\ built = NotBuilt
  /\ colorArgs \in SessionScales
  /\ scale = NoScale
  /\ shade = NoShade
  /\ NearestIdle
  /\ SessionIdle
  /\ AppIdle

\* a call buildSegments(points, opts) whose result the caller keeps
SessionBuild(opts) ==
  /\ Len(session.results) < MaxBuilds
  /\ \E result \in {buildSegments(points, opts)} :
       \E ids \in {Allocate(heap, Len(result.segments))} :
         /\ heap' = Store(heap, ids, result.segments)
         /\ session' = [session EXCEPT
                          !.results = Append(@, Held(result, opts, ids))]
  /\ UNCHANGED <<buildVars, scaleVars, nearestVars, appVars>>

\* a call findNearestPointOnTrack on the segments (and the index) of the
\* r-th BuildResult held
SessionNearest(r, lon, lat, mode) ==
  /\ r \in 1..Len(session.results)
  /\ \E view \in {Deref(heap, session.results[r])} :
       \E index \in {IndexFor(mode, view)} :
         session' = [session EXCEPT
                       !.last = [called |-> TRUE, result |-> r, lon |-> lon,
                                 lat |-> lat, mode |-> mode,
                                 out |-> findNearestPointOnTrack(lon, lat,
                                           view.segments, index)]]
  /\ UNCHANGED <<heap, buildVars, scaleVars, nearestVars, appVars>>

NextSession ==
  \/ \E opts \in TrackOptions : SessionBuild(opts)
  \/ \E r \in 1..MaxBuilds, q \in SessionQueries, mode \in ProbeModes :
       SessionNearest(r, q[1], q[2], mode)
  \/ CreateScale
  \/ \E speed \in SessionSpeeds : CallScale(speed)

SpecSession == InitSession /\ [][NextSession]_vars

\* Several scales held at once.  A scale is the closure over minSpeed,
\* maxSpeed, stops and n; a call reads them and may write the stop arrays it
\* holds, so the step of a call carries the stops it leaves behind.
MaxCalls == 3

PaletteArgs ==
  { [minSpeed |-> I(0), maxSpeed |-> I(100),
     colors |-> <<Rgb(I(0), I(0), I(0)), Rgb(I(255), I(255), I(255))>>],
    [minSpeed |-> I(0), maxSpeed |-> I(100),
     colors |-> <<Str(<<"#", "f", "f", "f", "f", "f", "f">>)>>],
    [minSpeed |-> I(100), maxSpeed |-> I(100), colors |-> <<>>],
    [minSpeed |-> NaN, maxSpeed |-> I(100),
     colors |-> <<Rgb(I(0), I(0), I(0)), Rgb(I(255), I(255), I(255))>>] }

PaletteSpeeds == {I(0), I(50), NaN}

\* StopsAfter with lerpColor writing the blend into the first stop
StopsAfterInPlace(sc, speed) ==
  IF Scale(sc, speed).kind # "value" \/ ~IsFinite(speed) THEN sc.stops
  ELSE [sc.stops EXCEPT ![1] = SubSeq(Scale(sc, speed).rgba, 1, 3)]

\* the stops a call of the scale leaves behind: the closure only reads
\* stops[i], and every return statement builds a new array
StopsAfter(sc, speed) == sc.stops

InitPalette ==
  /\ palette = NoPalette
  /\ track = NoTrack
  /\ HoverIdle
  /\ RouteIdle
  /\ ClusterIdle
  /\ BuildIdle
  /\ ScaleIdle
  /\ NearestIdle
  /\ SessionIdle

\* const scale = createSpeedColorScale(minSpeed, maxSpeed, colors), kept
\* beside the scales made before
MakeScale(args) ==
  /\ Len(palette.scales) < 2
  /\ \E fn \in {createSpeedColorScale(args.minSpeed, args.maxSpeed, args.colors)} :
       palette' = [palette EXCEPT !.scales = Append(@, [args |-> args, fn |-> fn])]
  /\ UNCHANGED <<buildVars, scaleVars, nearestVars, sessionVars, track, hoverVars,
                 routeVars, clusterVars>>

\* a call scale(speed) of the k-th scale held
ShadeWith(k, speed) ==
  /\ k \in 1..Len(palette.scales)
  /\ Len(palette.calls) < MaxCalls
  /\ \E fn \in {palette.scales[k].fn} :
       \E out \in {Scale(fn, speed)}, left \in {StopsAfter(fn, speed)} :
         palette' = [scales |-> [palette.scales EXCEPT ![k].fn.stops = left],
                     calls |-> Append(palette.calls,
                                      [scale |-> k, speed |-> speed, out |-> out])]
  /\ UNCHANGED <<buildVars, scaleVars, nearestVars, sessionVars, track, hoverVars,
                 routeVars, clusterVars>>

NextPalette ==
  \/ \E args \in PaletteArgs : MakeScale(args)
  \/ \E k \in 1..2, speed \in PaletteSpeeds : ShadeWith(k, speed)

SpecPalette == InitPalette /\ [][NextPalette]_vars

\* The segments of buildSegments in binary floating-point arithmetic.  Every
\* operation returns the exact result rounded to the nearest number with
\* Precision significant bits, ties to the even significand, as IEEE-754
\* prescribes (a double has 53 significant bits); the exponent is unbounded.
Precision == 4

RECURSIVE Pow2(_)
Pow2(e) == IF e = 0 THEN 1 ELSE 2 * Pow2(e - 1)

\* n/d > 0 scaled by up/down into [2^(Precision-1), 2^Precision), rounded to
\* an integer significand and scaled back
RECURSIVE RoundScaled(_, _, _, _)
RoundScaled(n, d, up, down) ==
  IF n >= Pow2(Precision) * d THEN RoundScaled(n, 2 * d, 2 * up, down)
  ELSE IF n < Pow2(Precision - 1) * d THEN RoundScaled(2 * n, d, up, 2 * down)
  ELSE LET q == n \div d
           r == n % d
           m == IF 2 * r > d \/ (2 * r = d /\ q % 2 = 1) THEN q + 1 ELSE q
       IN  Q(m * up, down)

\* the floating-point number nearest to x
Round(x) ==
  IF ~IsFinite(x) \/ x.n = 0 THEN x
  ELSE IF x.n < 0 THEN Neg(RoundScaled(-x.n, x.d, 1, 1))
  ELSE RoundScaled(x.n, x.d, 1, 1)

\* lerpFloat in the form (1 - t) * a + t * b
lerpWeighted(a, b, t) ==
  Round(Add(Round(Mul(Round(Sub(I(1), t)), a)), Round(Mul(t, b))))

\* const lerp = (a, b, t) => a + (b - a) * t, each operation rounded
lerpFloat(a, b, t) == Round(Add(a, Round(Mul(Round(Sub(b, a)), t))))

\* the segment pushed for points a, b (index i) and sub-index s
MakeSegmentFloat(a, b, i, s, subdivisions) ==
  LET t0 == Round(Div(I(s), subdivisions))
      t1 == Round(Div(I(s + 1), subdivisions))
      speed0 == lerpFloat(a.speed, b.speed, t0)
      speed1 == lerpFloat(a.speed, b.speed, t1)
      time0 == lerpFloat(a.timestamp, b.timestamp, t0)
      time1 == lerpFloat(a.timestamp, b.timestamp, t1)
  IN  [id |-> <<i, s>>,
       path |-> <<<<lerpFloat(a.lon, b.lon, t0), lerpFloat(a.lat, b.lat, t0)>>,
                  <<lerpFloat(a.lon, b.lon, t1), lerpFloat(a.lat, b.lat, t1)>>>>,
       speed |-> Round(Div(Round(Add(speed0, speed1)), I(2))),
       timestamp |-> Round(Div(Round(Add(time0, time1)), I(2))),
       speed0 |-> speed0, speed1 |-> speed1,
       time0 |-> time0, time1 |-> time1]

\* the two loops of buildSegments, from pair i and sub-index s on
RECURSIVE SegmentsFloat(_, _, _, _)
SegmentsFloat(items, i, s, subdivisions) ==
  IF ~(i < Len(items) - 1) THEN <<>>
  ELSE IF ~Lt(I(s), subdivisions) THEN SegmentsFloat(items, i + 1, 0, subdivisions)
  ELSE <<MakeSegmentFloat(items[i + 1], items[i + 2], i, s, subdivisions)>>
         \o SegmentsFloat(items, i, s + 1, subdivisions)

\* samples that are floating-point numbers themselves; from the first to the
\* second the speed falls from 64 to 1
JoinPoints ==
  { Pt(I(1), I(0), I(64), I(0)),
    Pt(I(2), I(1), I(1), I(8)),
    Pt(I(4), I(2), I(2), I(16)) }

JoinTracks ==
  {[present |-> TRUE, items |-> q] : q \in SeqsUpTo(JoinPoints, MaxLen)}

InitJoin ==
  /\ points \in JoinTracks
  /\ options \in TrackOptions
  /\ built = NotBuilt
  /\ ScaleIdle
  /\ NearestIdle
  /\ SessionIdle
  /\ AppIdle

\* the loops of a call buildSegments(points, options)
BuildFloat ==
  /\ ~track.done
  /\ track' = [done |-> TRUE,
               segments |-> IF Len(points.items) < 2 THEN <<>>
                            ELSE SegmentsFloat(points.items, 0, 0,
                                               options.subdivisions)]
  /\ UNCHANGED <<buildVars, scaleVars, nearestVars, sessionVars, palette, hoverVars,
                 routeVars, clusterVars>>

NextJoin == BuildFloat

SpecJoin == InitJoin /\ [][NextJoin]_vars

\* The hover handler of the component (App.tsx).  The component holds the
\* BuildResult of its points; an event carries the picked coordinate, the
\* pointer position and what the viewport offers: distanceScales.metersPerPixel[0],
\* the metres per pixel derived from zoom and latitude (mPerPxApprox), and
\* project with the array it returns.  Distances and thresholds are in the
\* unit of metersPerDegree.
HOVER_PIXEL_TOLERANCE == 40

\* let thresholdMeters = 500, in the unit of the distances
FallbackThreshold == Q(9, 2000)

\* the metre threshold derived from the pixel tolerance
ThresholdMeters(info) ==
  IF info.metersPerPixel.set
  THEN IF IsFinite(info.metersPerPixel.v)
       THEN Mul(info.metersPerPixel.v, I(HOVER_PIXEL_TOLERANCE))
       ELSE FallbackThreshold
  ELSE IF info.mPerPxApprox.set
  THEN Mul(info.mPerPxApprox.v, I(HOVER_PIXEL_TOLERANCE))
  ELSE FallbackThreshold

\* nearest.distMeters < thresholdMeters, for the squared distance
Below(distSq, threshold) ==
  /\ ~IsNaN(distSq) /\ ~IsNaN(threshold)
  /\ Gt(threshold, I(0))
  /\ Lt(distSq, Mul(threshold, threshold))

\* nearest.distMeters <= thresholdMeters
NotAbove(distSq, threshold) ==
  /\ ~IsNaN(distSq) /\ ~IsNaN(threshold)
  /\ Le(I(0), threshold)
  /\ Le(distSq, Mul(threshold, threshold))

\* the tooltip position: the projection of the nearest point when project
\* is a function returning two or more numbers, else info.x ?? 0, info.y ?? 0
TooltipAt(info) ==
  IF info.project = "function" /\ Len(info.projected) >= 2
  THEN [shown |-> TRUE, x |-> info.projected[1], y |-> info.projected[2]]
  ELSE [shown |-> TRUE, x |-> Coalesce(info.x, I(0)), y |-> Coalesce(info.y, I(0))]

\* handleHover showing the marker for a result at the threshold too
handleHoverAtThreshold(info, nearest) ==
  IF ~info.coordinate.set THEN [nearestPoint |-> Null, tooltip |-> NoTooltip]
  ELSE IF ~nearest.isNull /\ NotAbove(nearest.distSq, ThresholdMeters(info))
  THEN [nearestPoint |-> nearest, tooltip |-> TooltipAt(info)]
  ELSE [nearestPoint |-> Null, tooltip |-> NoTooltip]

\* handleHover(info), nearest being what findNearestPointOnTrack returns for
\* info.coordinate: the values it sets nearestPoint and tooltip to
handleHover(info, nearest) ==
  IF ~info.coordinate.set THEN [nearestPoint |-> Null, tooltip |-> NoTooltip]
  ELSE IF ~nearest.isNull /\ Below(nearest.distSq, ThresholdMeters(info))
  THEN [nearestPoint |-> nearest, tooltip |-> TooltipAt(info)]
  ELSE [nearestPoint |-> Null, tooltip |-> NoTooltip]

\* the component's options: subdivisions 6, overrides 0 and 120
AppOptions ==
  [subdivisions |-> I(6), minSpeedOverride |-> Given(I(0)),
   maxSpeedOverride |-> Given(I(120))]

\* the points state: empty before the route is loaded, then the route
HoverTracks ==
  { [present |-> TRUE, items |-> <<>>],
    [present |-> TRUE,
     items |-> <<Pt(I(0), I(0), I(30), I(0)), Pt(I(1), I(0), I(90), I(1000))>>] }

\* coordinates on the track, one hundredth of a degree beside it, far from
\* it, and with a NaN; none
HoverCoordinates ==
  { NoCoordinate,
    [set |-> TRUE, lon |-> Q(1, 2), lat |-> I(0)],
    [set |-> TRUE, lon |-> Q(1, 2), lat |-> Q(1, 100)],
    [set |-> TRUE, lon |-> Q(1, 2), lat |-> Q(1, 5)],
    [set |-> TRUE, lon |-> NaN, lat |-> I(0)] }

\* what the viewport's project offers: nothing, a function that throws, one
\* returning a single number, one returning a pixel position
HoverProjections ==
  { [project |-> "none", projected |-> <<>>],
    [project |-> "throws", projected |-> <<>>],
    [project |-> "function", projected |-> <<I(3)>>],
    [project |-> "function", projected |-> <<I(3), I(4)>>] }

\* what the viewport offers for the threshold: <<metersPerPixel[0], the
\* metres per pixel derived from zoom>>
HoverScales ==
  { <<Absent, Absent>>, <<Given(Q(1, 4000)), Given(I(5))>>,
    <<Given(NaN), Given(I(5))>>, <<Absent, Given(I(5))>>, <<Absent, Given(NaN)>> }

HoverInfos ==
  { [coordinate |-> c, x |-> xy[1], y |-> xy[2], metersPerPixel |-> m[1],
     mPerPxApprox |-> m[2], project |-> p.project, projected |-> p.projected] :
      c \in HoverCoordinates,
      xy \in {<<Absent, Given(I(9))>>},
      m \in HoverScales,
      p \in HoverProjections }

\* after the first render: the memoised BuildResult of the points
InitHover ==
  /\ points \in HoverTracks
  /\ options = AppOptions
  /\ built = [done |-> TRUE, result |-> buildSegments(points, AppOptions)]
  /\ ScaleIdle
  /\ NearestIdle
  /\ SessionIdle
  /\ AppIdle

\* one hover event handled
Hover(info) ==
  /\ \E nearest \in {findNearestPointOnTrack(info.coordinate.lon,
                        info.coordinate.lat, built.result.segments,
                        WithIndex(built.result.gridIndex, built.result.gridSize))} :
       \E set \in {handleHover(info, nearest)} :
         /\ nearestPoint' = set.nearestPoint
         /\ tooltip' = set.tooltip
  /\ hover' = [handled |-> TRUE, info |-> info]
  /\ UNCHANGED <<buildVars, scaleVars, nearestVars, sessionVars, palette, track,
                 routeVars, clusterVars>>

NextHover == \E info \in HoverInfos : Hover(info)

SpecHover == InitHover /\ [][NextHover]_vars

\* The route-loading effect of the component (App.tsx).  Each run of the
\* effect has its own cancelled flag and calls load(); load() runs to its
\* first await inside the effect and continues when the awaited promise
\* settles, each continuation running to its end or its next await without
\* interruption.  The cleanup of a run only sets that run's flag.  The
\* component's state outlives a cleanup, as it does when the effect is run
\* a second time on the mounted component.
MaxMounts == 2

\* message || "Route fetch failed"
MessageOr(message) == IF message = "" THEN "Route fetch failed" ELSE message

\* `HTTP ${resp.status}`
HttpMessage(status) ==
  CASE status = 404 -> "HTTP 404"
    [] status = 429 -> "HTTP 429"
    [] OTHER -> "HTTP 500"

\* buildPointsFromRoute for a route shorter than the spacing, which densify
\* leaves as it is: one point per coordinate, 30 km/h at the two ends of
\* the route, timestamps counted from the start of the route
RECURSIVE buildPointsFromRoute(_, _)
buildPointsFromRoute(coords, i) ==
  IF i > Len(coords) THEN <<>>
  ELSE <<Pt(coords[i][1], coords[i][2], I(30), I(i - 1))>>
         \o buildPointsFromRoute(coords, i + 1)

\* what fetch(url) settles with
FetchOutcomes ==
  { [kind |-> "rejects", message |-> "Failed to fetch", status |-> 0],
    [kind |-> "rejects", message |-> "", status |-> 0],
    [kind |-> "responds", message |-> "", status |-> 200],
    [kind |-> "responds", message |-> "", status |-> 404],
    [kind |-> "responds", message |-> "", status |-> 429],
    [kind |-> "responds", message |-> "", status |-> 500] }

\* what resp.json() settles with: a rejection, or a document whose
\* routes[0].geometry.coordinates is missing, empty, a list of positions,
\* or a list buildPointsFromRoute cannot read
JsonOutcomes ==
  { [kind |-> "rejects", message |-> "Unexpected end of JSON input", coordinates |-> <<>>],
    [kind |-> "missing", message |-> "", coordinates |-> <<>>],
    [kind |-> "coordinates", message |-> "", coordinates |-> <<>>],
    [kind |-> "coordinates", message |-> "", coordinates |-> <<<<I(0), I(0)>>>>],
    [kind |-> "coordinates", message |-> "",
     coordinates |-> <<<<I(0), I(0)>>, <<Q(1, 1000), I(0)>>>>],
    [kind |-> "malformed", message |-> "null is not iterable", coordinates |-> <<>>] }

\* how the body of try ends for a response that is not ok
ThrownForResponse(outcome) ==
  [kind |-> "thrown",
   message |-> IF outcome.kind = "rejects" THEN outcome.message
               ELSE HttpMessage(outcome.status),
   pts |-> <<>>]

\* how the body of try ends once resp.json() has settled
EndOfTry(outcome) ==
  CASE outcome.kind = "rejects" ->
         [kind |-> "thrown", message |-> outcome.message, pts |-> <<>>]
    [] outcome.kind = "malformed" ->
         [kind |-> "thrown", message |-> outcome.message, pts |-> <<>>]
    [] outcome.kind = "missing" \/ Len(outcome.coordinates) = 0 ->
         [kind |-> "thrown", message |-> "No coordinates in route", pts |-> <<>>]
    [] OTHER ->
         [kind |-> "pts", message |-> "",
          pts |-> buildPointsFromRoute(outcome.coordinates, 1)]

NotSettled == [kind |-> "pending", message |-> "", pts |-> <<>>]

\* Settle with the finally block setting loading whatever the flag is
SettleFinallyUnguarded(state, cancelled, end) ==
  LET tried ==
        IF cancelled THEN state
        ELSE IF end.kind = "pts"
        THEN [state EXCEPT !.points = [present |-> TRUE, items |-> end.pts]]
        ELSE [state EXCEPT !.error = [isNull |-> FALSE,
                                      message |-> MessageOr(end.message)]]
  IN  [tried EXCEPT !.loading = FALSE]

\* the end of load() for a body of try that ended with end: the guarded
\* setPoints or, in catch, setError, then the guarded setLoading(false) of
\* finally; state is <<points, error, loading>> as a record
Settle(state, cancelled, end) ==
  IF cancelled THEN state
  ELSE IF end.kind = "pts"
  THEN [state EXCEPT !.points = [present |-> TRUE, items |-> end.pts],
                     !.loading = FALSE]
  ELSE [state EXCEPT !.error = [isNull |-> FALSE,
                                message |-> MessageOr(end.message)],
                     !.loading = FALSE]

EmptyPoints == [present |-> TRUE, items |-> <<>>]

\* the component before its effects have run
InitRoute ==
  /\ points = EmptyPoints
  /\ options = NoOptions
  /\ built = NotBuilt
  /\ ScaleIdle
  /\ NearestIdle
  /\ SessionIdle
  /\ AppIdle

\* the effect runs: load() up to await fetch(url)
Mount ==
  /\ Len(loads) < MaxMounts
  /\ IF loads = <<>> THEN TRUE ELSE loads[Len(loads)].cancelled
  /\ loading' = TRUE
  /\ error' = NoError
  /\ loads' = Append(loads, [cancelled |-> FALSE, pc |-> "fetch",
                             settled |-> NotSettled])
  /\ UNCHANGED <<buildVars, scaleVars, nearestVars, sessionVars, palette, track,
                 hoverVars, clusterVars>>

\* the cleanup of the last run of the effect
Cleanup ==
  /\ loads # <<>>
  /\ ~loads[Len(loads)].cancelled
  /\ loads' = [loads EXCEPT ![Len(loads)].cancelled = TRUE]
  /\ UNCHANGED <<buildVars, scaleVars, nearestVars, sessionVars, palette, track,
                 hoverVars, clusterVars, loading, error>>

\* load() of run k ends with the body of try ended by end
Finish(k, end) ==
  /\ \E after \in {Settle([points |-> points, error |-> error, loading |-> loading],
                           loads[k].cancelled, end)} :
       /\ points' = after.points
       /\ error' = after.error
       /\ loading' = after.loading
  /\ loads' = [loads EXCEPT ![k].pc = "done", ![k].settled = end]
  /\ UNCHANGED <<options, built, scaleVars, nearestVars, sessionVars, palette,
                 track, hoverVars, clusterVars>>

\* fetch(url) of run k settles
FetchSettles(k, outcome) ==
  /\ loads[k].pc = "fetch"
  /\ IF outcome.kind = "responds" /\ outcome.status = 200
     THEN /\ loads' = [loads EXCEPT ![k].pc = "json"]
          /\ UNCHANGED <<buildVars, scaleVars, nearestVars, sessionVars, palette,
                         track, hoverVars, clusterVars, loading, error>>
     ELSE Finish(k, ThrownForResponse(outcome))

\* resp.json() of run k settles
JsonSettles(k, outcome) ==
  /\ loads[k].pc = "json"
  /\ Finish(k, EndOfTry(outcome))

NextRoute ==
  \/ Mount
  \/ Cleanup
  \/ \E k \in 1..Len(loads), outcome \in FetchOutcomes : FetchSettles(k, outcome)
  \/ \E k \in 1..Len(loads), outcome \in JsonOutcomes : JsonSettles(k, outcome)

SpecRoute == InitRoute /\ [][NextRoute]_vars

\* The cluster updates of the component (App.tsx with clustering).  onLoad
\* keeps the map, calls updateClusters and registers one more moveend
\* listener; a moveend event calls updateClusters once per listener.
MaxLoads == 2
MaxMoves == 3

\* 1e-6
ViewTolerance == Q(1, 1000000)

\* sameZoom && sameBbox
SameView(prev, view) ==
  /\ ~prev.isNull
  /\ Lt(MathAbs(Sub(prev.zoom, view.zoom)), ViewTolerance)
  /\ \A i \in 1..4 : Lt(MathAbs(Sub(prev.bbox[i], view.bbox[i])), ViewTolerance)

\* updateClusters setting the state without comparing the hashes
updateClustersNoHash(st, view) ==
  IF SameView(st.prev, view) THEN st
  ELSE LET renderable == composeClusterRenderable(view.bbox, view.zoom)
           newHash == RenderableHash(renderable)
       IN  [prev |-> [isNull |-> FALSE, zoom |-> view.zoom, bbox |-> view.bbox,
                      hash |-> newHash],
            clusterZoom |-> view.zoom, clusterData |-> renderable,
            composed |-> st.composed + 1, sets |-> st.sets + 1]

\* updateClusters(m) for the view [zoom, bbox] of the map m; st is
\* [prev, clusterZoom, clusterData, composed, sets]
updateClusters(st, view) ==
  IF SameView(st.prev, view) THEN st
  ELSE LET renderable == composeClusterRenderable(view.bbox, view.zoom)
           newHash == RenderableHash(renderable)
       IN  IF ~st.prev.isNull /\ st.prev.hash = newHash
           THEN [st EXCEPT !.prev = [isNull |-> FALSE, zoom |-> view.zoom,
                                     bbox |-> view.bbox, hash |-> newHash],
                           !.composed = @ + 1]
           ELSE [prev |-> [isNull |-> FALSE, zoom |-> view.zoom,
                           bbox |-> view.bbox, hash |-> newHash],
                 clusterZoom |-> view.zoom, clusterData |-> renderable,
                 composed |-> st.composed + 1, sets |-> st.sets + 1]

\* the listeners of one moveend event, one after the other
RECURSIVE Listeners(_, _, _)
Listeners(st, view, n) ==
  IF n = 0 THEN st ELSE Listeners(updateClusters(st, view), view, n - 1)

\* the views the map is moved to: the initial view; the zoom or the west
\* bound half the tolerance away; the zoom exactly the tolerance away; the
\* zoom half a level up; a pan that keeps the same features in view; a pan
\* to the third event; a zoom to half the tolerance below level 4 and to
\* level 4
Views ==
  { InitialView,
    [zoom |-> Q(6000001, 2000000), bbox |-> <<I(0), I(0), I(10), I(10)>>],
    [zoom |-> I(3), bbox |-> <<Q(1, 2000000), I(0), I(10), I(10)>>],
    [zoom |-> Q(3000001, 1000000), bbox |-> <<I(0), I(0), I(10), I(10)>>],
    [zoom |-> Q(7, 2), bbox |-> <<I(0), I(0), I(10), I(10)>>],
    [zoom |-> I(3), bbox |-> <<I(1), I(0), I(11), I(10)>>],
    [zoom |-> I(3), bbox |-> <<I(20), I(0), I(30), I(10)>>],
    [zoom |-> Q(7999999, 2000000), bbox |-> <<I(0), I(0), I(10), I(10)>>],
    [zoom |-> I(4), bbox |-> <<I(0), I(0), I(10), I(10)>>] }

ClusterStateNow ==
  [prev |-> prevClusterState, clusterZoom |-> clusterZoom,
   clusterData |-> clusterData, composed |-> work.composed, sets |-> work.sets]

InitClusters ==
  /\ BuildIdle
  /\ ScaleIdle
  /\ NearestIdle
  /\ SessionIdle
  /\ AppIdle

\* the state after the calls of updateClusters of one event
Apply(after) ==
  /\ prevClusterState' = after.prev
  /\ clusterZoom' = after.clusterZoom
  /\ clusterData' = after.clusterData
  /\ work' = [composed |-> after.composed, sets |-> after.sets]

\* onLoad: mapRef.current = e.target; updateClusters(e.target);
\* e.target.on("moveend", ...)
Load ==
  /\ map.listeners < MaxLoads
  /\ \E after \in {updateClusters(ClusterStateNow, [zoom |-> map.zoom, bbox |-> map.bbox])} :
       Apply(after)
  /\ map' = [map EXCEPT !.listeners = @ + 1]
  /\ UNCHANGED <<buildVars, scaleVars, nearestVars, sessionVars, palette, track,
                 hoverVars, routeVars>>

\* the map ends a move at view and fires moveend
MoveEnd(view) ==
  /\ map.listeners > 0
  /\ map.moves < MaxMoves
  /\ \E after \in {Listeners(ClusterStateNow, view, map.listeners)} : Apply(after)
  /\ map' = [map EXCEPT !.zoom = view.zoom, !.bbox = view.bbox, !.moves = @ + 1]
  /\ UNCHANGED <<buildVars, scaleVars, nearestVars, sessionVars, palette, track,
                 hoverVars, routeVars>>

NextClusters ==
  \/ Load
  \/ \E view \in Views : MoveEnd(view)

SpecClusters == InitClusters /\ [][NextClusters]_vars

-----------------------------------------------------------------------------
(* Properties of buildSegments *)

HasTrack == points.present /\ Len(points.items) >= 2
Segs == built.result.segments
NoOverride == ~options.minSpeedOverride.set /\ ~options.maxSpeedOverride.set

\* C1: for at least two samples and subdivisions n >= 1, buildSegments
\* returns exactly (samples.length - 1) * n segments.
SegmentCount ==
  (built.done /\ HasTrack /\ options.subdivisions.n >= 1)
    => Len(Segs) = (Len(points.items) - 1) * options.subdivisions.n

SegmentCountWitness ==
  /\ built.done /\ Len(points.items) = 3 /\ options.subdivisions = I(2)
  /\ Len(Segs) = 4

\* C2: two adjacent segments derived from the same pair of consecutive
\* samples share their boundary: speed1, time1 and the end coordinate of the
\* first are speed0, time0 and the start coordinate of the second.
Continuity ==
  built.done =>
    \A k \in 1..(Len(Segs) - 1) :
      Segs[k].id[1] = Segs[k + 1].id[1] =>
        /\ Segs[k].speed1 = Segs[k + 1].speed0
        /\ Segs[k].time1 = Segs[k + 1].time0
        /\ Segs[k].path[2] = Segs[k + 1].path[1]

ContinuityWitness ==
  /\ built.done /\ Len(Segs) >= 2
  /\ Segs[1].id[1] = Segs[2].id[1]
  /\ IsFinite(Segs[1].speed1) /\ Segs[1].speed1 # Segs[1].speed0
  /\ Segs[1].path[2] # Segs[1].path[1]

\* C3 as stated: without overrides every segment's speed lies between
\* minSpeed and maxSpeed, whatever the samples.
SpeedWithinDomainAlways ==
  (built.done /\ HasTrack /\ NoOverride) =>
    \A k \in 1..Len(Segs) :
      /\ Le(built.result.minSpeed, Segs[k].speed)
      /\ Le(Segs[k].speed, built.result.maxSpeed)

\* C3 (amended): without overrides every segment whose speed is finite lies
\* between minSpeed and maxSpeed; a non-finite segment speed is left out of
\* the extrema.
SpeedWithinDomain ==
  (built.done /\ HasTrack /\ NoOverride) =>
    \A k \in 1..Len(Segs) :
      IsFinite(Segs[k].speed) =>
        /\ Le(built.result.minSpeed, Segs[k].speed)
        /\ Le(Segs[k].speed, built.result.maxSpeed)

SpeedWithinDomainWitness ==
  /\ built.done /\ HasTrack /\ NoOverride
  /\ \E j, k \in 1..Len(Segs) :
       /\ IsFinite(Segs[j].speed) /\ IsFinite(Segs[k].speed)
       /\ Lt(Segs[j].speed, Segs[k].speed)
       /\ built.result.minSpeed = Segs[j].speed
       /\ built.result.maxSpeed = Segs[k].speed

\* C4: for fewer than two samples (none, one, or no array at all)
\* buildSegments returns no segments, minSpeed = minSpeedOverride ?? 0,
\* maxSpeed = maxSpeedOverride ?? 1, the view (0, 0, zoom 2, pitch 0,
\* bearing 0), an empty grid index and gridSize 0.05, whatever subdivisions is.
DegenerateDefaults ==
  (built.done /\ ~HasTrack) =>
    /\ built.result.segments = <<>>
    /\ built.result.minSpeed =
         (IF options.minSpeedOverride.set THEN options.minSpeedOverride.v ELSE I(0))
    /\ built.result.maxSpeed =
         (IF options.maxSpeedOverride.set THEN options.maxSpeedOverride.v ELSE I(1))
    /\ built.result.initialViewState =
         [longitude |-> I(0), latitude |-> I(0), zoom |-> I(2),
          pitch |-> I(0), bearing |-> I(0)]
    /\ DOMAIN built.result.gridIndex = {}
    /\ built.result.gridSize = Q(1, 20)

DegenerateDefaultsWitness ==
  /\ built.done /\ points.present /\ Len(points.items) = 1
  /\ options.subdivisions = I(3)
  /\ options.minSpeedOverride = Given(I(0)) /\ ~options.maxSpeedOverride.set
  /\ built.result.maxSpeed = I(1)

\* the finite segment speeds (midSpeed) of the build
FiniteSpeeds == {Segs[k].speed : k \in {j \in 1..Len(Segs) : IsFinite(Segs[j].speed)}}

\* the least and the greatest of a non-empty set of finite numbers
Least(S) == CHOOSE v \in S : \A w \in S : Le(v, w)
Greatest(S) == CHOOSE v \in S : \A w \in S : Le(w, v)

\* C12: for at least two samples, minSpeed is minSpeedOverride whenever one
\* is supplied (0 included) and otherwise the least finite segment speed;
\* maxSpeed is maxSpeedOverride whenever supplied and otherwise the greatest
\* finite segment speed; each bound depends on its own override only, and
\* without a finite segment speed the un-overridden bounds are 0 and 1.
SpeedDomainOverrides ==
  (built.done /\ HasTrack) =>
    /\ built.result.minSpeed =
         (IF options.minSpeedOverride.set THEN options.minSpeedOverride.v
          ELSE IF FiniteSpeeds = {} THEN I(0) ELSE Least(FiniteSpeeds))
    /\ built.result.maxSpeed =
         (IF options.maxSpeedOverride.set THEN options.maxSpeedOverride.v
          ELSE IF FiniteSpeeds = {} THEN I(1) ELSE Greatest(FiniteSpeeds))

SpeedDomainOverridesWitness ==
  /\ built.done /\ HasTrack
  /\ options.minSpeedOverride = Given(I(0)) /\ ~options.maxSpeedOverride.set
  /\ Cardinality(FiniteSpeeds) >= 2
  /\ Gt(Least(FiniteSpeeds), I(0))
  /\ built.result.minSpeed = I(0)
  /\ built.result.maxSpeed = Greatest(FiniteSpeeds)

\* the extent of the original samples along both axes
LonSpan ==
  LET lons == {points.items[j].lon : j \in 1..Len(points.items)}
  IN  Sub(Greatest(lons), Least(lons))
LatSpan ==
  LET lats == {points.items[j].lat : j \in 1..Len(points.items)}
  IN  Sub(Greatest(lats), Least(lats))
Span == MathMax(LonSpan, LatSpan)

\* the ladder, rung by rung from the narrowest span
LadderZoom(span) ==
  IF Lt(span, Q(25, 1000)) THEN 10
  ELSE IF Lt(span, Q(5, 100)) THEN 9
  ELSE IF Lt(span, Q(1, 10)) THEN 8
  ELSE IF Lt(span, Q(2, 10)) THEN 7
  ELSE IF Lt(span, Q(4, 10)) THEN 6
  ELSE IF Lt(span, Q(8, 10)) THEN 5
  ELSE 3

\* C13: for at least two samples, with span the larger of the longitude and
\* latitude extents of the original samples, the initial zoom is 10 below
\* 0.025, 9 below 0.05, 8 below 0.1, 7 below 0.2, 6 below 0.4, 5 below 0.8
\* and 3 otherwise; zoom 4 is never produced.
ZoomLadder ==
  (built.done /\ HasTrack) =>
    /\ built.result.initialViewState.zoom = I(LadderZoom(Span))
    /\ built.result.initialViewState.zoom # I(4)

ZoomLadderWitness ==
  /\ built.done /\ HasTrack
  /\ Span = Q(8, 10) /\ Lt(LonSpan, LatSpan) = FALSE /\ LatSpan = Q(3, 10)
  /\ built.result.initialViewState.zoom = I(3)

\* the cell of the midpoint of segment k under the cell size 0.02
MidCell(k) ==
  LET midLon == Div(Add(Segs[k].path[1][1], Segs[k].path[2][1]), I(2))
      midLat == Div(Add(Segs[k].path[1][2], Segs[k].path[2][2]), I(2))
  IN  <<MathFloor(Div(midLon, Q(2, 100))), MathFloor(Div(midLat, Q(2, 100)))>>

\* the number of times segment seg occurs in bucket c of the grid index
Occurrences(c, seg) ==
  Cardinality({q \in 1..Len(built.result.gridIndex[c]) :
                 built.result.gridIndex[c][q] = seg})

\* C14: for at least two samples every segment occurs exactly once in the
\* bucket of its midpoint's cell and in no other bucket; no bucket is empty
\* and every bucket holds segments of `segments` only.
GridBuckets ==
  (built.done /\ HasTrack) =>
    /\ \A k \in 1..Len(Segs) :
         LET mid == MidCell(k)
         IN  /\ mid \in DOMAIN built.result.gridIndex
             /\ \A c \in DOMAIN built.result.gridIndex :
                  Occurrences(c, Segs[k]) = (IF c = mid THEN 1 ELSE 0)
    /\ \A c \in DOMAIN built.result.gridIndex :
         /\ Len(built.result.gridIndex[c]) > 0
         /\ \A q \in 1..Len(built.result.gridIndex[c]) :
              \E k \in 1..Len(Segs) : built.result.gridIndex[c][q] = Segs[k]

GridBucketsWitness ==
  /\ built.done /\ HasTrack
  /\ Cardinality(DOMAIN built.result.gridIndex) >= 2
  /\ \E c \in DOMAIN built.result.gridIndex : Len(built.result.gridIndex[c]) >= 2
  /\ \E j, k \in 1..Len(Segs) : MidCell(j)[1] # MidCell(k)[1]

-----------------------------------------------------------------------------
(* Properties of the colour scale *)

Gray == <<I(128), I(128), I(128), I(255)>>
Stops == scale.fn.stops
FiniteDomain == IsFinite(colorArgs.minSpeed) /\ IsFinite(colorArgs.maxSpeed)

\* a stop's colour with alpha 255
Opaque(c) == <<c[1], c[2], c[3], I(255)>>

\* a stop's colour as the interpolation of two or more stops yields it: each
\* channel rounded to the nearest integer
Rounded(c) == <<MathRound(c[1]), MathRound(c[2]), MathRound(c[3]), I(255)>>

\* C8: no call of the scale (nor of buildSegments or findNearestPointOnTrack)
\* raises an exception, whatever the arguments.
NoException == shade.called => shade.out.kind = "value"

\* C9 as stated: for finite minSpeed and maxSpeed the scale maps minSpeed to
\* the first stop's colour and maxSpeed to the last stop's colour.
BoundaryLawAlways ==
  (shade.called /\ FiniteDomain) =>
    /\ shade.speed = colorArgs.minSpeed => shade.out = Returned(Opaque(Stops[1]))
    /\ shade.speed = colorArgs.maxSpeed =>
         shade.out = Returned(Opaque(Stops[Len(Stops)]))

\* C9 (amended): for finite minSpeed # maxSpeed the scale maps minSpeed to
\* the first stop's colour and maxSpeed to the last stop's colour, with the
\* channels rounded when there are two or more stops; for minSpeed = maxSpeed
\* both are mapped to the first stop's colour.
BoundaryLaw ==
  (shade.called /\ FiniteDomain) =>
    LET first == IF Len(Stops) = 1 THEN Opaque(Stops[1]) ELSE Rounded(Stops[1])
        last == IF Len(Stops) = 1 THEN Opaque(Stops[1])
                ELSE Rounded(Stops[Len(Stops)])
    IN  /\ shade.speed = colorArgs.minSpeed => shade.out = Returned(first)
        /\ shade.speed = colorArgs.maxSpeed =>
             shade.out = Returned(IF colorArgs.minSpeed = colorArgs.maxSpeed
                                  THEN first ELSE last)

BoundaryLawWitness ==
  /\ shade.called /\ colorArgs.minSpeed = I(0) /\ colorArgs.maxSpeed = I(100)
  /\ shade.speed = I(100) /\ Len(Stops) = 3
  /\ Stops[3] # Stops[1] /\ Stops[3] # Stops[2]
  /\ shade.out = Returned(Opaque(Stops[3]))

\* C10: the scale maps every non-finite speed to the gray (128,128,128,255),
\* whatever the domain and the stops; so does makeSpeedToColor.
NonFiniteGray ==
  (shade.called /\ ~IsFinite(shade.speed)) =>
    /\ shade.out = Returned(<<I(128), I(128), I(128), I(255)>>)
    /\ shade.legacy = <<I(128), I(128), I(128), I(255)>>

NonFiniteGrayWitness ==
  /\ shade.called /\ shade.speed = NInf
  /\ Len(colorArgs.colors) = 1 /\ IsNaN(colorArgs.minSpeed)
  /\ shade.out = Returned(Gray)

\* the position of the speed of the last call within the stops, for a
\* finite domain: (n - 1) times the clamped share of the domain covered
StopPosition ==
  LET width == IF colorArgs.minSpeed = colorArgs.maxSpeed THEN I(1)
               ELSE Sub(colorArgs.maxSpeed, colorArgs.minSpeed)
      raw == Div(Sub(shade.speed, colorArgs.minSpeed), width)
      u == IF Lt(raw, I(0)) THEN I(0) ELSE IF Gt(raw, I(1)) THEN I(1) ELSE raw
  IN  Mul(u, I(Len(Stops) - 1))

\* channel c of the linear interpolation between the two stops around the
\* position pos
Blend(pos, c) ==
  LET lower == pos.n \div pos.d
      upper == IF lower + 1 < Len(Stops) THEN lower + 1 ELSE Len(Stops) - 1
      share == Sub(pos, I(lower))
  IN  Add(Stops[lower + 1][c],
          Mul(Sub(Stops[upper + 1][c], Stops[lower + 1][c]), share))

\* r is x rounded to the nearest integer, an exact half going up
IsRoundHalfUp(r, x) ==
  /\ IsFinite(r) /\ r.d = 1
  /\ Le(Sub(r, Q(1, 2)), x) /\ Lt(x, Add(r, Q(1, 2)))

BlackWhite ==
  <<Str(<<"#", "0", "0", "0", "0", "0", "0">>),
    Str(<<"#", "f", "f", "f", "f", "f", "f">>)>>

\* C16: with two or more stops each colour channel the scale returns is the
\* linear interpolation of the two stop channels rounded to the nearest
\* integer, exact halves up; createSpeedColorScale(0, 100, ["#000000",
\* "#ffffff"]) applied to 50 returns (128,128,128,255), the rounding of 127.5.
ChannelRounding ==
  /\ (shade.called /\ FiniteDomain /\ IsFinite(shade.speed) /\ Len(Stops) >= 2) =>
       /\ shade.out.kind = "value"
       /\ \A c \in 1..3 :
            IsRoundHalfUp(shade.out.rgba[c], Blend(StopPosition, c))
       /\ shade.out.rgba[4] = I(255)
  /\ (shade.called /\ colorArgs = [minSpeed |-> I(0), maxSpeed |-> I(100),
                                    colors |-> BlackWhite]
       /\ shade.speed = I(50)) =>
       shade.out = Returned(<<I(128), I(128), I(128), I(255)>>)

ChannelRoundingWitness ==
  /\ shade.called /\ shade.speed = I(50)
  /\ colorArgs = [minSpeed |-> I(0), maxSpeed |-> I(100), colors |-> BlackWhite]
  /\ Blend(StopPosition, 1) = Q(255, 2)
  /\ shade.out = Returned(<<I(128), I(128), I(128), I(255)>>)

\* the last call had a finite speed and a finite domain of width zero
ZeroWidthCall ==
  /\ shade.called /\ IsFinite(shade.speed)
  /\ FiniteDomain /\ colorArgs.minSpeed = colorArgs.maxSpeed

\* the normalised position u of the last call
Position == Normalise(scale.fn, shade.speed)

\* C17 as stated: for minSpeed = maxSpeed and a finite speed the normalised
\* position is 0 or 1 by the sign of speed - minSpeed, never in between.
ZeroWidthEndsOnly ==
  ZeroWidthCall =>
    Position = (IF Gt(Sub(shade.speed, colorArgs.minSpeed), I(0)) THEN I(1)
                ELSE I(0))

\* C17 (amended): for minSpeed = maxSpeed the domain is treated as of width
\* 1 and, for a finite speed, the normalised position is speed - minSpeed
\* clamped to [0, 1]: 0 up to minSpeed, 1 from minSpeed + 1 on and the
\* difference itself in between.
ZeroWidthClamp ==
  ZeroWidthCall =>
    LET diff == Sub(shade.speed, colorArgs.minSpeed)
    IN  /\ Position = (IF Le(diff, I(0)) THEN I(0)
                       ELSE IF Le(I(1), diff) THEN I(1) ELSE diff)
        /\ (Len(Stops) = 2 /\ Position = Q(1, 2)) =>
             shade.out = Returned(lerpColor(Stops[1], Stops[2], Q(1, 2)))

ZeroWidthClampWitness ==
  /\ ZeroWidthCall /\ colorArgs.colors = BlackWhite
  /\ shade.speed = Q(1, 2) /\ Position = Q(1, 2)
  /\ shade.out = Returned(<<I(128), I(128), I(128), I(255)>>)

\* C20: a scale built from exactly one stop maps every finite speed, below,
\* inside or above the domain and whatever minSpeed and maxSpeed are, to that
\* stop's colour with alpha 255.
SingleStop ==
  (shade.called /\ Len(colorArgs.colors) = 1 /\ IsFinite(shade.speed)) =>
    shade.out = Returned(Opaque(parseColor(colorArgs.colors[1])))

SingleStopWitness ==
  /\ shade.called /\ colorArgs.colors = <<Rgb(Q(1, 2), I(170), I(0))>>
  /\ IsNaN(colorArgs.minSpeed) /\ colorArgs.maxSpeed = I(100)
  /\ shade.speed = I(150)
  /\ shade.out = Returned(<<Q(1, 2), I(170), I(0), I(255)>>)

-----------------------------------------------------------------------------
(* Properties of findNearestPointOnTrack *)

FiniteQuery == IsFinite(lookup.lon) /\ IsFinite(lookup.lat)

\* the result of the same query without an index
PlainResult == findNearestPointOnTrack(lookup.lon, lookup.lat, Segs, NoIndex)

\* segment k of the build is at the minimal distance from the query point
IsNearest(k) ==
  \A j \in 1..Len(Segs) :
    ~Lt(Projection(Segs[j], lookup.lon, lookup.lat).distSq,
        Projection(Segs[k], lookup.lon, lookup.lat).distSq)

\* the midpoint of segment k lies in the 3x3 block of cells around the query
InBlock(k) ==
  LET key == MidpointKey(Segs[k], built.result.gridSize)
      q == GridKey(lookup.lon, lookup.lat, built.result.gridSize)
  IN  \E dx, dy \in -1..1 : key = <<Add(q[1], I(dx)), Add(q[2], I(dy))>>

\* the projections of the query point on the segments segs[j..], in order
RECURSIVE ProjectAll(_, _)
ProjectAll(segs, j) ==
  IF j > Len(segs) THEN <<>>
  ELSE <<Projection(segs[j], lookup.lon, lookup.lat)>> \o ProjectAll(segs, j + 1)

\* IsNearest(k), given the projections on all segments
IsNearestOf(all, k) ==
  \A j \in 1..Len(all) : ~Lt(all[j].distSq, all[k].distSq)

\* C5 as stated: when the nearest segments lie in the 3x3 block, the call
\* with the build's index returns the same result as the call without it.
IndexEquivalenceAlways ==
  (/\ lookup.called /\ lookup.mode = "build" /\ FiniteQuery /\ Len(Segs) > 0
   /\ LET all == ProjectAll(Segs, 1)
      IN  \A k \in 1..Len(Segs) : IsNearestOf(all, k) => InBlock(k))
    => lookup.out = PlainResult

\* C5 (amended): when a nearest segment lies in the 3x3 block, the call with
\* the build's index returns the same distance as the call without it, and
\* the same point, speed and timestamp whenever all segments at that minimal
\* distance project the query point to the same result.
IndexEquivalence ==
  (lookup.called /\ lookup.mode = "build" /\ FiniteQuery) =>
    LET all == ProjectAll(Segs, 1)
        nearest == {k \in 1..Len(Segs) : IsNearestOf(all, k)}
    IN  (\E k \in nearest : InBlock(k))
          => /\ ~lookup.out.isNull
             /\ lookup.out.distSq = PlainResult.distSq
             /\ (\A j, k \in nearest : all[j] = all[k])
                  => lookup.out = PlainResult

IndexEquivalenceWitness ==
  /\ lookup.called /\ lookup.mode = "build" /\ FiniteQuery
  /\ \E k \in 1..Len(Segs) : IsNearest(k) /\ InBlock(k)
  /\ \E k \in 1..Len(Segs) : ~InBlock(k)
  /\ Len(Segs) >= 3
  /\ lookup.out = PlainResult
  /\ ~(lookup.out.distSq = I(0))

\* C6: findNearestPointOnTrack returns null exactly when segments is empty,
\* whatever the query point and the grid index.
NullOnlyWhenEmpty ==
  lookup.called => (lookup.out.isNull <=> Len(Segs) = 0)

NullOnlyWhenEmptyWitness ==
  /\ lookup.called /\ lookup.mode = "empty" /\ Len(Segs) > 0
  /\ ~lookup.out.isNull /\ IsFinite(lookup.out.distSq)

\* C7 as stated: a non-finite query longitude or latitude yields null.
NonFiniteQueryNull ==
  (lookup.called /\ ~FiniteQuery) => lookup.out.isNull

\* C7 (amended): for a non-finite query longitude or latitude the call
\* returns null only when segments is empty; otherwise it returns a result
\* whose distance is non-finite (NaN or +Infinity).
NonFiniteQueryDistance ==
  (lookup.called /\ ~FiniteQuery) =>
    IF Len(Segs) = 0 THEN lookup.out.isNull
    ELSE /\ ~lookup.out.isNull
         /\ ~IsFinite(lookup.out.distSq)
         /\ lookup.out.distSq # NInf

NonFiniteQueryDistanceWitness ==
  /\ lookup.called /\ lookup.mode = "build" /\ Len(Segs) >= 2
  /\ IsFinite(lookup.lon) /\ lookup.lat = PInf
  /\ IsFinite(lookup.out.lon) /\ IsFinite(lookup.out.lat)
  /\ lookup.out.distSq = PInf

\* the segment the result was taken from and its clamped projection parameter
WinnerAt == ScanWinner(scan.candidates, 1, lookup.lon, lookup.lat, 0)
Winner == scan.candidates[WinnerAt]
WinnerT == ProjectionT(Winner, lookup.lon, lookup.lat)

QueryIsEndpoint ==
  \E k \in 1..Len(Segs), e \in 1..2 : Segs[k].path[e] = <<lookup.lon, lookup.lat>>

\* every sample of the track has a finite longitude and latitude
FiniteTrack ==
  \A j \in 1..Len(points.items) :
    IsFinite(points.items[j].lon) /\ IsFinite(points.items[j].lat)

\* the scenario: samples (0,0,speed 0,time 0) and (1,0,speed 10,time 1000)
\* with subdivisions 2
Scenario ==
  /\ points.items = <<Pt(I(0), I(0), I(0), I(0)), Pt(I(1), I(0), I(10), I(1000))>>
  /\ options.subdivisions = I(2)

ScenarioSegments ==
  /\ Len(Segs) = 2
  /\ Segs[1].path = <<<<I(0), I(0)>>, <<Q(1, 2), I(0)>>>>
  /\ Segs[1].speed0 = I(0) /\ Segs[1].speed1 = I(5)
  /\ Segs[2].path = <<<<Q(1, 2), I(0)>>, <<I(1), I(0)>>>>
  /\ Segs[2].speed0 = I(5) /\ Segs[2].speed1 = I(10)

\* C15 as stated: a query at an endpoint of any segment of any built track,
\* without an index, returns distance 0 and that endpoint.
EndpointQueryAlways ==
  (lookup.called /\ lookup.mode = "none" /\ QueryIsEndpoint) =>
    /\ lookup.out.distSq = I(0)
    /\ <<lookup.out.lon, lookup.out.lat>> = <<lookup.lon, lookup.lat>>

\* C15 (amended): for a track whose samples all have finite coordinates, a
\* query at an endpoint of one of its segments, without an index, returns
\* distance 0 and that endpoint; the scenario builds the two segments
\* 0..0.5 (speed 0..5) and 0.5..1 (speed 5..10) and the query (0.5, 0)
\* returns distance 0 and speed 5.
EndpointQuery ==
  /\ (lookup.called /\ lookup.mode = "none" /\ QueryIsEndpoint /\ FiniteTrack) =>
       /\ lookup.out.distSq = I(0)
       /\ <<lookup.out.lon, lookup.out.lat>> = <<lookup.lon, lookup.lat>>
  /\ (built.done /\ Scenario) =>
       /\ ScenarioSegments
       /\ (lookup.called /\ lookup.mode = "none"
            /\ lookup.lon = Q(1, 2) /\ lookup.lat = I(0)) =>
            lookup.out.distSq = I(0) /\ lookup.out.speed = I(5)

EndpointQueryWitness ==
  /\ built.done /\ Scenario /\ ScenarioSegments
  /\ lookup.called /\ lookup.mode = "none"
  /\ lookup.lon = Q(1, 2) /\ lookup.lat = I(0)
  /\ lookup.out.distSq = I(0) /\ lookup.out.speed = I(5)
  /\ lookup.out.lon = Q(1, 2)

\* the index arguments of the last call
PassedIndex == IndexFor(lookup.mode, built.result)

\* both index arguments were supplied, with a cell size other than 0
IndexSupplied ==
  /\ PassedIndex.hasIndex /\ PassedIndex.gridSize.set
  /\ PassedIndex.gridSize.v # I(0) /\ ~IsNaN(PassedIndex.gridSize.v)

\* the nine cells around the query point
BlockCells ==
  LET gx == MathFloor(Div(lookup.lon, PassedIndex.gridSize.v))
      gy == MathFloor(Div(lookup.lat, PassedIndex.gridSize.v))
  IN  {<<Add(gx, I(dx)), Add(gy, I(dy))>> : dx \in -1..1, dy \in -1..1}

\* the union of the buckets of those cells
BlockUnion ==
  UNION {{PassedIndex.gridIndex[c][q] : q \in 1..Len(PassedIndex.gridIndex[c])} :
           c \in BlockCells \cap DOMAIN PassedIndex.gridIndex}

Searched == {scan.candidates[q] : q \in 1..Len(scan.candidates)}

\* C18: given gridIndex and gridSize, the call searches exactly the union of
\* the buckets of the nine cells around the query point, each segment once,
\* if that union is not empty; if it is empty, or gridIndex or gridSize is
\* missing or gridSize is 0, it searches every segment of `segments`.
CandidateSelection ==
  (lookup.called /\ Len(Segs) > 0) =>
    IF IndexSupplied /\ BlockUnion # {}
    THEN /\ Searched = BlockUnion
         /\ Len(scan.candidates) = Cardinality(BlockUnion)
    ELSE scan.candidates = Segs

CandidateSelectionWitness ==
  /\ lookup.called /\ lookup.mode = "doubled" /\ IndexSupplied
  /\ Cardinality(BlockUnion) >= 2 /\ Cardinality(BlockUnion) < Len(Segs)
  /\ Cardinality(BlockCells \cap DOMAIN PassedIndex.gridIndex) >= 2
  /\ Searched = BlockUnion

-----------------------------------------------------------------------------
(* Properties of a session of calls *)

\* the r-th BuildResult as a call made on its own returns it
Isolated(r) == buildSegments(points, session.results[r].opts)

\* the object identities the r-th BuildResult refers to
ObjectsOf(r) ==
  {session.results[r].segments[j] : j \in 1..Len(session.results[r].segments)}

\* every result held and every call made so far is what the same call made
\* on its own returns, and no two BuildResults share a segment object
SessionState ==
  /\ \A r \in 1..Len(session.results) :
       /\ Deref(heap, session.results[r]).segments = Isolated(r).segments
       /\ Deref(heap, session.results[r]).gridIndex = Isolated(r).gridIndex
       /\ \A q \in 1..Len(session.results) :
            q # r => ObjectsOf(q) \cap ObjectsOf(r) = {}
  /\ session.last.called =>
       session.last.out =
         findNearestPointOnTrack(session.last.lon, session.last.lat,
           Isolated(session.last.result).segments,
           IndexFor(session.last.mode, Isolated(session.last.result)))
  /\ scale.made =>
       scale.fn = createSpeedColorScale(colorArgs.minSpeed, colorArgs.maxSpeed,
                                        colorArgs.colors)
  /\ shade.called =>
       shade.out = Scale(createSpeedColorScale(colorArgs.minSpeed,
                           colorArgs.maxSpeed, colorArgs.colors), shade.speed)

\* a step modifies no input: the samples, the colours, the segment objects
\* that exist, the BuildResults held and the stops of the scale stay as they
\* are
InputsKept ==
  /\ points' = points
  /\ colorArgs' = colorArgs
  /\ \A id \in 1..Len(heap) : heap'[id] = heap[id]
  /\ \A r \in 1..Len(session.results) :
       session.results'[r] = session.results[r]
  /\ scale.made => scale' = scale

Interpolated ==
  (built.done /\ Len(points.items) >= 2) =>
    LET n == options.subdivisions.n
    IN  \A i \in 0..(Len(points.items) - 2), sub \in 0..(n - 1) :
          LET a == points.items[i + 1]
              b == points.items[i + 2]
              seg == built.result.segments[i * n + sub + 1]
              t0 == Q(sub, n)
              t1 == Q(sub + 1, n)
          IN  /\ seg.path[1] = <<lerp(a.lon, b.lon, t0), lerp(a.lat, b.lat, t0)>>
              /\ seg.path[2] = <<lerp(a.lon, b.lon, t1), lerp(a.lat, b.lat, t1)>>
              /\ seg.speed0 = lerp(a.speed, b.speed, t0)
              /\ seg.speed1 = lerp(a.speed, b.speed, t1)
              /\ seg.time0 = lerp(a.timestamp, b.timestamp, t0)
              /\ seg.time1 = lerp(a.timestamp, b.timestamp, t1)
              /\ seg.speed = Div(Add(seg.speed0, seg.speed1), I(2))
              /\ seg.timestamp = Div(Add(seg.time0, seg.time1), I(2))

\* three samples and two subdivisions: the last of the four segments runs
\* from the middle of the second pair to its end, and the four quantities of
\* that pair differ between its samples
InterpolatedWitness ==
  /\ built.done /\ Len(points.items) = 3 /\ options.subdivisions = I(2)
  /\ Len(built.result.segments) = 4
  /\ points.items[2] = Pt(I(0), I(0), I(0), I(0))
  /\ points.items[3] = Pt(I(1), I(1), PInf, I(2000))
  /\ built.result.segments[4].id = <<1, 1>>
  /\ built.result.segments[4].path = <<<<Q(1, 2), Q(1, 2)>>, <<I(1), I(1)>>>>
  /\ built.result.segments[4].time0 = I(1000)
  /\ built.result.segments[4].timestamp = I(1500)

\* the positions in the candidate list whose clamped-projection distance no
\* other candidate undercuts
Closest(all) ==
  {j \in 1..Len(all) : \A k \in 1..Len(all) : ~Lt(all[k].distSq, all[j].distSq)}

\* C23: for a finite query point on a track of finite samples, the result's
\* distance is at most the clamped-projection distance of every candidate,
\* and the result is the projection on the first candidate, in iteration
\* order, that attains the least distance.
MinimalFirst ==
  (lookup.called /\ FiniteQuery /\ Len(scan.candidates) > 0) =>
    LET all == ProjectAll(scan.candidates, 1)
        least == Closest(all)
    IN  /\ \A j \in 1..Len(all) : Le(lookup.out.distSq, all[j].distSq)
        /\ least # {}
        /\ lookup.out = all[CHOOSE j \in least : \A k \in least : j <= k]

\* two candidates at the same least distance whose projections differ, the
\* result being the projection on the earlier one
MinimalFirstWitness ==
  /\ lookup.called /\ FiniteQuery /\ Len(scan.candidates) >= 2
  /\ LET all == ProjectAll(scan.candidates, 1)
         least == Closest(all)
     IN  \E j, k \in least :
           /\ j < k /\ all[j] # all[k]
           /\ \A m \in least : j <= m
           /\ lookup.out = all[j]
           /\ lookup.out.distSq # I(0)

\* x lies between the bounds p and q, in either order
Between(x, p, q) == Le(MathMin(p, q), x) /\ Le(x, MathMax(p, q))

\* the result is the point of the segment w at the parameter t within
\* [0, 1], between the segment's endpoints, at a distance >= 0
OnSegment(w, t) ==
  /\ Le(I(0), t) /\ Le(t, I(1))
  /\ lookup.out.lon = Add(w.path[1][1], Mul(Sub(w.path[2][1], w.path[1][1]), t))
  /\ lookup.out.lat = Add(w.path[1][2], Mul(Sub(w.path[2][2], w.path[1][2]), t))
  /\ Between(lookup.out.lon, w.path[1][1], w.path[2][1])
  /\ Between(lookup.out.lat, w.path[1][2], w.path[2][2])
  /\ Le(I(0), lookup.out.distSq)

\* C24 as stated: for every finite query point and non-empty segments the
\* parameter is within [0, 1], the result lies on the chosen segment between
\* its endpoints and its distance is >= 0.
ClampedOnSegmentAlways ==
  (lookup.called /\ FiniteQuery) =>
    LET at == WinnerAt
        w == scan.candidates[at]
    IN  at > 0 => OnSegment(w, ProjectionT(w, lookup.lon, lookup.lat))

\* C24 (amended): the same, for a chosen segment whose endpoint coordinates
\* are finite.  (With a NaN coordinate the parameter, the point and the
\* distance are NaN.)
ClampedOnSegment ==
  (lookup.called /\ FiniteQuery) =>
    LET at == WinnerAt
        w == scan.candidates[at]
    IN  (at > 0 /\ \A e, c \in 1..2 : IsFinite(w.path[e][c])) =>
          OnSegment(w, ProjectionT(w, lookup.lon, lookup.lat))

\* a query beyond the end of the track: the projection on the line through
\* the segment falls past its end, and the result is the end itself
ClampedOnSegmentWitness ==
  /\ lookup.called /\ WinnerAt > 0
  /\ <<lookup.lon, lookup.lat>> = <<I(2), I(0)>>
  /\ \A e, c \in 1..2 : IsFinite(Winner.path[e][c])
  /\ Winner.path[1] # Winner.path[2]
  /\ WinnerT = I(1)
  /\ <<lookup.out.lon, lookup.out.lat>> = Winner.path[2]
  /\ lookup.out.distSq = I(1)

\* the candidates of the call whose two endpoints are the same finite point
Collapsed ==
  {j \in 1..Len(scan.candidates) :
     /\ scan.candidates[j].path[1] = scan.candidates[j].path[2]
     /\ IsFinite(scan.candidates[j].path[1][1])
     /\ IsFinite(scan.candidates[j].path[1][2])}

\* the projection of the query point on a collapsed candidate is the
\* candidate's start point, at parameter 0 and at a finite distance
AtStart(j) ==
  LET c == scan.candidates[j]
      r == Projection(c, lookup.lon, lookup.lat)
  IN  /\ ProjectionT(c, lookup.lon, lookup.lat) = I(0)
      /\ <<r.lon, r.lat>> = c.path[1]
      /\ IsFinite(r.distSq)

\* C25 as stated: for a candidate whose endpoints coincide and every query
\* point, t = 0, the projected point is the start point, the speed and the
\* timestamp are speed0 and time0, and no non-finite value arises.
ZeroLengthAlways ==
  lookup.called =>
    \A j \in Collapsed :
      LET c == scan.candidates[j]
          r == Projection(c, lookup.lon, lookup.lat)
      IN  /\ AtStart(j)
          /\ r.speed = c.speed0 /\ r.timestamp = c.time0
          /\ IsFinite(r.speed) /\ IsFinite(r.timestamp)

\* C25 (amended): for a candidate whose endpoints coincide and a finite
\* query point, t = 0 and the projected point is the start point, at a finite
\* distance; the speed is speed0 when speed0 and speed1 are finite, and the
\* timestamp is time0 when time0 and time1 are finite.
ZeroLength ==
  (lookup.called /\ FiniteQuery) =>
    \A j \in Collapsed :
      LET c == scan.candidates[j]
          r == Projection(c, lookup.lon, lookup.lat)
      IN  /\ AtStart(j)
          /\ (IsFinite(c.speed0) /\ IsFinite(c.speed1)) => r.speed = c.speed0
          /\ (IsFinite(c.time0) /\ IsFinite(c.time1)) => r.timestamp = c.time0

\* a finite query point away from a collapsed candidate with finite speeds:
\* the candidate's projection is its start point with speed0 and time0
ZeroLengthWitness ==
  /\ lookup.called /\ FiniteQuery
  /\ \E j \in Collapsed :
       LET c == scan.candidates[j]
           r == Projection(c, lookup.lon, lookup.lat)
       IN  /\ IsFinite(c.speed0) /\ IsFinite(c.speed1)
           /\ c.path[1] # <<lookup.lon, lookup.lat>>
           /\ <<r.lon, r.lat>> = c.path[1]
           /\ r.speed = c.speed0 /\ r.timestamp = c.time0
           /\ r.distSq # I(0)

\* a call with a finite speed of a scale with two or more stops over a
\* finite domain of non-zero width
BinnedCall ==
  /\ shade.called /\ FiniteDomain /\ colorArgs.minSpeed # colorArgs.maxSpeed
  /\ IsFinite(shade.speed) /\ Len(Stops) >= 2

\* the colour returned is the interpolation, channel by channel and rounded,
\* between stop i = floor(u*(n-1)) and stop min(i+1, n-1) at the fraction
\* u*(n-1) - i, with i in 0..n-1 and alpha 255
Binned ==
  /\ shade.out.kind = "value"
  /\ StopPosition.n \div StopPosition.d \in 0..(Len(Stops) - 1)
  /\ \A c \in 1..3 : shade.out.rgba[c] = MathRound(Blend(StopPosition, c))
  /\ shade.out.rgba[4] = I(255)

\* C26 as stated: for n >= 2 stops, finite minSpeed # maxSpeed and a finite
\* speed the scale returns the binned interpolation; speeds below minSpeed
\* give the first stop and speeds above maxSpeed the last stop.
BinnedScaleAlways ==
  BinnedCall =>
    /\ Binned
    /\ Lt(shade.speed, colorArgs.minSpeed) =>
         shade.out = Returned(Rounded(Stops[1]))
    /\ Gt(shade.speed, colorArgs.maxSpeed) =>
         shade.out = Returned(Rounded(Stops[Len(Stops)]))

\* C26 (amended): the scale returns the binned interpolation; when
\* minSpeed < maxSpeed speeds below minSpeed give the first stop and speeds
\* above maxSpeed the last stop, and when minSpeed > maxSpeed speeds above
\* minSpeed give the first stop and speeds below maxSpeed the last stop.
BinnedScale ==
  BinnedCall =>
    /\ Binned
    /\ Lt(colorArgs.minSpeed, colorArgs.maxSpeed) =>
         /\ Lt(shade.speed, colorArgs.minSpeed) =>
              shade.out = Returned(Rounded(Stops[1]))
         /\ Gt(shade.speed, colorArgs.maxSpeed) =>
              shade.out = Returned(Rounded(Stops[Len(Stops)]))
    /\ Gt(colorArgs.minSpeed, colorArgs.maxSpeed) =>
         /\ Gt(shade.speed, colorArgs.minSpeed) =>
              shade.out = Returned(Rounded(Stops[1]))
         /\ Lt(shade.speed, colorArgs.maxSpeed) =>
              shade.out = Returned(Rounded(Stops[Len(Stops)]))

\* three different stops over the domain 0..100 and the speed 150, above
\* maxSpeed: the last stop
BinnedScaleWitness ==
  /\ BinnedCall /\ Len(Stops) = 3
  /\ colorArgs.minSpeed = I(0) /\ colorArgs.maxSpeed = I(100)
  /\ shade.speed = I(150)
  /\ Stops[3] # Stops[1] /\ Stops[3] # Stops[2]
  /\ shade.out = Returned(Rounded(Stops[3]))

-----------------------------------------------------------------------------
(* Properties of the segments in rounded arithmetic *)

\* position, speed and timestamp at the start and at the end of a segment,
\* and of a sample
StartOf(seg) == <<seg.path[1], seg.speed0, seg.time0>>
EndOf(seg) == <<seg.path[2], seg.speed1, seg.time1>>
AtSample(p) == <<<<p.lon, p.lat>>, p.speed, p.timestamp>>

\* a + (b - a) * 1 as the rounded operations compute it
Reached(a, b) == Round(Add(a, Round(Sub(b, a))))

\* b - a is a floating-point number: the subtraction does not round
ExactDifference(a, b) == Round(Sub(b, a)) = Sub(b, a)

-----------------------------------------------------------------------------
(* Properties of the component *)

\* the result of findNearestPointOnTrack for the last event's coordinate
HoverNearest ==
  findNearestPointOnTrack(hover.info.coordinate.lon, hover.info.coordinate.lat,
                          built.result.segments, IndexFor("build", built.result))

\* the last event's result lies at or beyond the threshold
AtOrBeyond ==
  LET threshold == ThresholdMeters(hover.info)
  IN  \/ Le(threshold, I(0))
      \/ Le(Mul(threshold, threshold), HoverNearest.distSq)

\* C28: after any sequence of hover events nearestPoint is null exactly when
\* tooltip is null; both are set only if the last event carried a coordinate
\* and findNearestPointOnTrack returned a result strictly closer than the
\* threshold; an event without a coordinate, with no result, or with a result
\* at or beyond the threshold clears both.
HoverPair ==
  /\ nearestPoint.isNull <=> ~tooltip.shown
  /\ ~nearestPoint.isNull =>
       /\ hover.handled /\ hover.info.coordinate.set
       /\ nearestPoint = HoverNearest /\ ~HoverNearest.isNull
       /\ Below(HoverNearest.distSq, ThresholdMeters(hover.info))
  /\ (hover.handled
       /\ (~hover.info.coordinate.set \/ HoverNearest.isNull \/ AtOrBeyond)) =>
       nearestPoint.isNull /\ ~tooltip.shown

\* the marker and the tooltip were shown, and the last event, whose result
\* lies exactly at the threshold, has cleared both
HoverPairWitness ==
  /\ hover.handled /\ hover.info.coordinate.set
  /\ ~HoverNearest.isNull
  /\ HoverNearest.distSq = Mul(ThresholdMeters(hover.info), ThresholdMeters(hover.info))
  /\ HoverNearest.distSq # I(0)
  /\ nearestPoint.isNull /\ ~tooltip.shown

\* a continuation of run k runs in this step
Continues(k) == k <= Len(loads') /\ loads'[k].pc # loads[k].pc

\* the last run of the effect has settled and its cleanup has not run
LiveSettled ==
  /\ loads # <<>>
  /\ ~loads[Len(loads)].cancelled
  /\ loads[Len(loads)].pc = "done"

\* C29, first part: a continuation of a run whose cleanup has run leaves
\* points, error and loading as they are
CancelledSilent ==
  \A k \in 1..Len(loads) :
    (loads[k].cancelled /\ Continues(k)) => UNCHANGED <<points, error, loading>>

\* C29, second part, the updates: the continuation that ends a run whose
\* cleanup has not run sets loading to false and makes exactly one of the
\* two updates, setPoints (success) or setError with a message (failure)
SettlesOnce ==
  \A k \in 1..Len(loads) :
    (~loads[k].cancelled /\ Continues(k) /\ loads'[k].pc = "done") =>
      LET end == loads'[k].settled
      IN  /\ loading' = FALSE
          /\ end.kind \in {"pts", "thrown"}
          /\ end.kind = "pts" =>
               points'.items = end.pts /\ points'.items # <<>> /\ error' = error
          /\ end.kind = "thrown" =>
               ~error'.isNull /\ error'.message # "" /\ points' = points

\* C29, second part, the state: after a settled run whose cleanup has not
\* run loading is false, and error is null after a success and set after a
\* failure
SettledOnce ==
  LiveSettled =>
    LET end == loads[Len(loads)].settled
    IN  /\ loading = FALSE
        /\ end.kind = "pts" => points.items = end.pts /\ error.isNull
        /\ end.kind = "thrown" => ~error.isNull

\* C29: once the cleanup of a run of the route-loading effect has run, load()
\* of that run never updates points, error or loading, however the
\* settling of fetch and the cleanup interleave; when the cleanup has not
\* run, a settled load leaves loading false and has made exactly one of the
\* updates: points set (success) or error set (HTTP failure, missing
\* coordinates, exception).
LoadGuarded == [][CancelledSilent /\ SettlesOnce]_vars /\ [](SettledOnce)

\* a run whose cleanup ran while fetch was pending has ended with points
\* to set and has set nothing, and the next run has ended with an error
LoadGuardedWitness ==
  /\ Len(loads) = 2
  /\ loads[1].cancelled /\ loads[1].settled.kind = "pts"
  /\ LiveSettled /\ loads[2].settled.kind = "thrown"
  /\ points = EmptyPoints /\ ~error.isNull /\ loading = FALSE

\* the view of the map after the step lies within 1e-6 of the recorded one
\* in zoom and in all four bounds
Recorded ==
  /\ ~prevClusterState.isNull
  /\ Lt(MathAbs(Sub(prevClusterState.zoom, map'.zoom)), ViewTolerance)
  /\ \A i \in 1..4 :
       Lt(MathAbs(Sub(prevClusterState.bbox[i], map'.bbox[i])), ViewTolerance)

\* the hash of what is in view after the step
HashInView == RenderableHash(composeClusterRenderable(map'.bbox, map'.zoom))

\* the step sets the cluster state
SetsState == work'.sets # work.sets

\* the state is set only when nothing was recorded or the hash differs
UpdatesOnlyOnChange ==
  /\ SetsState => (prevClusterState.isNull \/ HashInView # prevClusterState.hash)
  /\ work'.sets <= work.sets + 1
  /\ work'.sets = work.sets => UNCHANGED <<clusterZoom, clusterData>>

\* a view within the tolerance of the record: nothing is computed, set or
\* recorded
IgnoresSameView ==
  Recorded => UNCHANGED <<work, clusterZoom, clusterData, prevClusterState>>

\* C30: over any sequence of load and moveend events updateClusters sets
\* the state (setClusterZoom, setClusterData) only when no state was
\* recorded or the hash of the new renderable differs from the recorded
\* one; when zoom and all four bounds lie within 1e-6 of the recorded ones
\* it does nothing (no recomputation, no update, record unchanged), so
\* events with an unchanged view never set the state again.
ChangeDetection == [][UpdatesOnlyOnChange /\ IgnoresSameView]_vars

\* after three moves, among them one within the tolerance of the record
\* and one that changed the record only, the state was set once by the
\* load and never again
ChangeDetectionWitness ==
  /\ map.moves = MaxMoves /\ map.listeners = MaxLoads
  /\ work.sets = 1 /\ work.composed = 2
  /\ prevClusterState.zoom = Q(7, 2)
  /\ map.zoom = Q(7, 2)
  /\ clusterZoom = I(3)

====
